---- MODULE Spec2Model ----
(***************************************************************************)
(* A state-machine model of pymcp: the server request pipeline             *)
(* (handler -> validator -> router -> work queue -> executor workers ->    *)
(* response queue -> sender -> connection manager), the ToolExecutor       *)
(* service, the tool registry, the tool loader with its debounced file     *)
(* watcher, the server handle, and the client's request multiplexer.       *)
(*                                                                         *)
(* Timing convention: callbacks of the asyncio event loop take no time;    *)
(* time (Tick) passes only inside tools and timers, and only when the loop *)
(* has nothing ready to run.                                               *)
(*                                                                         *)
(* Messages are records of what a message is built from (correlation id,   *)
(* tool, result, error code); model_dump gives the JSON object the         *)
(* pydantic class makes of it.                                             *)
(***************************************************************************)
EXTENDS Integers, Sequences, FiniteSets, TLC

(***************************************************************************)
(* Bounds of the model.                                                    *)
(***************************************************************************)
MaxFrames == 3
SlowTicks == 2
MaxUpdates == 1
MaxCalls == 2
MaxEvents == 3
DebounceTicks == 2
MaxClientCalls == 2
MaxCloses == 2
MaxClosingCalls == 1
MaxStray == 1
TimeoutTicks == 2
MaxStops == 2
MaxTools == 4
MaxParams == 3

\* The loads of the registry: the first and the reloads.
MaxLoads == 3

(***************************************************************************)
(* Program constants.                                                      *)
(***************************************************************************)
num_executors_one == 1
num_executors == 2
num_senders == 1

NullId == 0

\* The correlation id the client mints for its rid-th request (a fresh uuid4).
CidOf(rid) == 100 + rid

Conns == {"c1", "c2"}

(***************************************************************************)
(* Tools and registries.  A registry is a snapshot: an identity (ver) and  *)
(* its name -> tool map (here the set of names; a tool is its name).       *)
(***************************************************************************)
\* The source files of the tool repositories, each with the names of the tools it
\* declares in the order inspect.getmembers yields them: the two core files, then the
\* user files.  "foo" and "bar" are scenario E's disk before and after its edit;
\* "dup" has two files that declare a tool named foo.
Layouts == {"foo", "bar", "dup"}

CoreFiles == << <<"list_tools_available">>, <<"ping">> >>

Files(layout) ==
    CASE layout = "foo" -> CoreFiles \o << <<"blob", "boom", "foo", "slow">> >>
      [] layout = "bar" -> CoreFiles \o << <<"bar", "blob", "boom", "slow">> >>
      [] layout = "dup" -> CoreFiles \o << <<"boom", "foo", "slow">>, <<"bar", "foo", "baz">> >>

\* ToolRegistry.register: the duplicate-name check.
register_raises_never(tools, name) == FALSE
register_raises(tools, name) == name \in tools

\* ToolLoader._load_tools_from_file: registers the members in order; a ValueError of
\* register is caught for the file as a whole, which ends the file's loop.
RECURSIVE load_tools_from_file(_, _)
load_tools_from_file(members, tools) ==
    IF members = <<>> THEN tools
    ELSE IF register_raises(tools, Head(members)) THEN tools
    ELSE load_tools_from_file(Tail(members), tools \cup {Head(members)})

\* ToolLoader.load_registry: a fresh registry, filled file by file.
RECURSIVE load_files(_, _)
load_files(files, tools) ==
    IF files = <<>> THEN tools
    ELSE load_files(Tail(files), load_tools_from_file(Head(files), tools))

load_registry(ver, layout) == [ver |-> ver, tools |-> load_files(Files(layout), {})]

\* Whether register raised a name collision during a load of this layout (history).
RECURSIVE Collides(_, _)
Collides(files, tools) ==
    IF files = <<>> THEN FALSE
    ELSE \/ \E i \in DOMAIN Head(files) :
              \/ Head(files)[i] \in tools
              \/ \E j \in 1..(i - 1) : Head(files)[j] = Head(files)[i]
         \/ Collides(Tail(files), load_tools_from_file(Head(files), tools))

\* The registry of the ver-th load when scenario E's edit is made before every reload.
ToolRegistry(ver) == load_registry(ver, IF ver % 2 = 0 THEN "foo" ELSE "bar")

get_tool(registry, name) == IF name \in registry.tools THEN name ELSE "None"

\* Business logic of the tools used in the scenarios.
ToolDuration(tool) == IF tool = "slow" THEN SlowTicks ELSE 0
ToolRaises(tool) == tool = "boom"
\* "blob" returns an instance of a class of its own.
ToolResult(tool) ==
    IF tool = "ping" THEN "pong" ELSE IF tool = "blob" THEN "object" ELSE "done"
\* Tool.INJECTED_REGISTRY_PARAM in inspect.signature(tool.func).parameters
HasRegistryParam(tool) == tool = "list_tools_available"

NoRegistry == [ver |-> -1, tools |-> {}]

(***************************************************************************)
(* Wire messages.  rid is the model's name of a request (the position of   *)
(* its frame among all frames sent); it is not on the wire.                *)
(***************************************************************************)
FrameKinds == {"tool_call", "bad_schema", "not_json", "no_header", "no_correlation_id"}

\* A frame that is a tool call but for its header, or its header's correlation_id.
HeaderlessKinds == {"no_header", "no_correlation_id"}

\* The correlation id of a frame that carries none.
Absent == -1

Frame(rid, kind, tool) ==
    [rid |-> rid, kind |-> kind, tool |-> tool,
     cid |-> IF kind \in HeaderlessKinds THEN Absent ELSE CidOf(rid)]

ErrorResponse(rid, cid, code) ==
    [rid |-> rid, type |-> "error_response", cid |-> cid,
     tool |-> "None", result |-> "None", code |-> code]

ToolCallResponse(rid, cid, tool, result) ==
    [rid |-> rid, type |-> "tool_call_response", cid |-> cid,
     tool |-> tool, result |-> result, code |-> "None"]

(***************************************************************************)
(* The JSON object of a response.  A pydantic constructor keeps the fields *)
(* its class declares, from the keyword arguments or the declared default, *)
(* and ignores every other keyword argument.                               *)
(***************************************************************************)
JsonNull == [null |-> TRUE]

JsonString(str) == [str |-> str]

\* class ErrorResponse(MCPResponse): header, type, body
ErrorResponseFields == {"header", "type", "body"}

ErrorResponseDefaults == [type |-> JsonString("error_response"), body |-> JsonNull]

\* class ToolCallResponse(MCPResponse): header, type, body
ToolCallResponseFields == {"header", "type", "body"}

ToolCallResponseDefaults == [type |-> JsonString("tool_call_response")]

\* class ToolCallResponseBody(BaseModel): both fields are required
ToolCallResponseBodyFields == {"tool_name", "result"}

\* The keyword arguments the server builds an error response from.
ErrorResponseKwargs(message) ==
    [status |-> JsonString("error"),
     header |-> [correlation_id |-> message.cid],
     error |-> [code |-> message.code, message |-> message.code]]

\* The keyword arguments a worker builds a tool call response from.
ToolCallResponseKwargs(message) ==
    [header |-> [correlation_id |-> message.cid],
     body |-> [tool_name |-> message.tool, result |-> message.result]]

pydantic_init(fields, defaults, kwargs) ==
    [f \in fields |-> IF f \in DOMAIN kwargs THEN kwargs[f] ELSE defaults[f]]

\* A field of a JSON object; a field the object does not have reads as null.
JsonField(object, f) == IF f \in DOMAIN object THEN object[f] ELSE JsonNull

model_dump(message) ==
    IF message.type = "error_response"
    THEN pydantic_init(ErrorResponseFields, ErrorResponseDefaults,
                       ErrorResponseKwargs(message))
    ELSE pydantic_init(ToolCallResponseFields, ToolCallResponseDefaults,
                       ToolCallResponseKwargs(message))

\* message.model_dump_json() raises PydanticSerializationError for a result of a type
\* it cannot serialize.
model_dump_json_raises(message) ==
    message.type = "tool_call_response" /\ message.result = "object"

ExecutionCommand(conn, frame) ==
    [connection_id |-> conn, rid |-> frame.rid,
     correlation_id |-> frame.cid, tool_name |-> frame.tool]

ResponseCommand_misrouted(conn, message) == [connection_id |-> "c1", message |-> message]
ResponseCommand(conn, message) == [connection_id |-> conn, message |-> message]

NoCommand == [connection_id |-> "None", rid |-> 0, correlation_id |-> NullId,
              tool_name |-> "None"]

VARIABLES
    conn_state,          \* per connection: "new", "open", "socket_closed" (the socket is
                         \* closed, the handler has not run since) or "closed"
    active_connections,  \* ConnectionManager.active_connections (its keys)
    inbox,               \* per connection: frames sent by the client, not yet read
    wire_out,            \* per connection: frames the server wrote to the socket
    work_queue,          \* MCPServer.work_queue
    response_queue,      \* MCPServer.response_queue
    executors,           \* per ExecutorWorker: state, command in hand, remaining tool time
    server_registry,     \* MCPServer.tool_registry
    router_registry,     \* Router.tool_registry
    worker_registry,     \* per ExecutorWorker: ExecutorWorker.tool_registry
    published,           \* the registry of the last completed on_update (history)
    nframes,             \* frames sent so far (history)
    reqlog,              \* per accepted request: what was in flight when it was read (history)
    executor_registry,   \* ToolExecutor.tool_registry
    exec_calls           \* per call of ToolExecutor.execute: its locals and its response

serverVars == <<conn_state, active_connections, inbox, wire_out, work_queue,
                response_queue, executors, server_registry, router_registry,
                worker_registry, published, nframes, reqlog>>

execVars == <<executor_registry, exec_calls>>

VARIABLES
    stopping,            \* ToolChangeHandler._stopping
    debounce_timer,      \* ToolChangeHandler._debounce_timer (0: None)
    timers,              \* the loop's scheduled call_later handles, not cancelled
    ready,               \* the loop's ready queue: handles in the order they will run
    thread_pc,           \* the observer thread inside on_any_event: "idle" or "posting"
    watch_state,         \* ToolLoader.watch: "watching" up to "stopped"
    disk,                \* the layout of the tool repositories on disk
    nseen,               \* filesystem events the observer has dispatched (history)
    nevents,             \* qualifying events accepted by on_any_event (history)
    burst,               \* the burst the last accepted event belongs to (history)
    since,               \* per burst: ticks since its last event, capped (history)
    reloads              \* one entry per run of _reload_and_notify (history)

watchVars == <<stopping, debounce_timer, timers, ready, thread_pc, watch_state,
               disk, nseen, nevents, burst, since, reloads>>

VARIABLES
    connection_open,     \* MCPClient.is_connected
    pending_requests,    \* MCPClient._pending_requests (its keys, by call)
    client_calls,        \* per call of MCPClient.call: its position, future and deadline
    client_socket,       \* responses on the client's socket, not yet read
    unanswered,          \* requests the server has received and not answered
    listener,            \* the listener task: "running" or "stopped"
    listener_raised,     \* an exception escaped the listener's loop body
    listener_log,        \* what the listener did with each response (history)
    socket_closing,      \* connection.close() has been called
    listener_cancelled,  \* close() has cancelled the listener task
    close_calls          \* per call of MCPClient.close: its position

clientVars == <<connection_open, pending_requests, client_calls, client_socket,
                unanswered, listener, listener_raised, listener_log, socket_closing,
                listener_cancelled, close_calls>>

VARIABLES
    server_task,         \* the task running MCPServer.start()
    worker_tasks,        \* MCPServer._tasks: the executor and sender worker tasks
    listening,           \* the listening socket of websockets.serve is open
    stop_calls           \* per call of ServerHandle.stop: its position

stopVars == <<server_task, worker_tasks, listening, stop_calls>>

VARIABLES
    tools,               \* ToolRegistry._tools: its entries, in the order of insertion
    register_log,        \* the last call of register: its tool, the dict before, the outcome
    definitions,         \* the last list get_all_definitions returned, and of which tools
    func,                \* the parameters a tool function declares, in declaration order
    arguments            \* Tool.arguments as _introspect_args built it, and of which function

toolVars == <<tools, register_log, definitions, func, arguments>>

VARIABLES
    built,               \* per call of MCPClient.call: the request it built, or that it raised
    received             \* per frame put to the server: what validator, router, executor read

protocolVars == <<built, received>>

VARIABLES
    heap,                \* the ToolRegistry objects made so far: their _tools, and whether
                         \* they were handed to the server and with which _tools
    loader               \* load_registry in progress: its registry, the files still to load

loaderVars == <<heap, loader>>

otherVars == <<watchVars, clientVars, stopVars, toolVars, protocolVars, loaderVars>>

vars == <<serverVars, execVars, watchVars, clientVars, stopVars, toolVars, protocolVars,
          loaderVars>>

Workers == 1..num_executors

Idle == [state |-> "idle", cmd |-> NoCommand, remaining |-> 0]

ServerInit ==
    /\ conn_state = [c \in Conns |-> "new"]
    /\ active_connections = {}
    /\ inbox = [c \in Conns |-> <<>>]
    /\ wire_out = [c \in Conns |-> <<>>]
    /\ work_queue = <<>>
    /\ response_queue = <<>>
    /\ executors = [w \in Workers |-> Idle]
    /\ server_registry = ToolRegistry(0)
    /\ router_registry = ToolRegistry(0)
    /\ worker_registry = [w \in Workers |-> ToolRegistry(0)]
    /\ published = ToolRegistry(0)
    /\ nframes = 0
    /\ reqlog = <<>>

Calls == 1..MaxCalls

NoCall == [state |-> "none", tool_name |-> "None", correlation_id |-> NullId,
           tool |-> "None", lookup |-> NoRegistry, args |-> {},
           execution_args |-> NoRegistry, returned |-> FALSE,
           response |-> ErrorResponse(0, NullId, "None"), listed |-> {}]

\* The value of a tool_registry argument that came with the request.
ClientValue == [ver |-> -2, tools |-> {}]

\* The sets of argument names a request carries.
RequestArgs == {{}, {"tool_registry"}}

ExecutorInit ==
    /\ executor_registry = ToolRegistry(0)
    /\ exec_calls = [k \in Calls |-> NoCall]

(***************************************************************************)
(* History helpers: which requests are where in the pipeline.              *)
(***************************************************************************)
QueuedRids == {work_queue[i].rid : i \in DOMAIN work_queue}
BusyWorkers == {w \in Workers : executors[w].state = "busy"}
RunningRids == {executors[w].cmd.rid : w \in BusyWorkers}
AnsweringRids == {response_queue[i].message.rid : i \in DOMAIN response_queue}
InFlight == QueuedRids \cup RunningRids \cup AnsweringRids

\* Requests that have not finished their tool yet: queued, or running with time left.
StillRunning ==
    QueuedRids \cup {executors[w].cmd.rid : w \in {x \in BusyWorkers : executors[x].remaining > 0}}

\* The slow call on connection conn that alone is in flight, and still running (0: none).
SlowAlone(conn) ==
    IF /\ Cardinality(InFlight) = 1
       /\ InFlight \subseteq StillRunning
       /\ \A r \in InFlight : reqlog[r].conn = conn /\ reqlog[r].tool = "slow"
    THEN CHOOSE r \in InFlight : TRUE
    ELSE 0

LogEntry(conn, frame) ==
    [conn |-> conn, tool |-> frame.tool, cid |-> frame.cid,
     \* when the request was read: the calls queued or executing, and the slow call
     \* that alone was in flight
     ahead |-> Cardinality(QueuedRids \cup RunningRids), after_slow |-> SlowAlone(conn),
     waited |-> FALSE, dispatched |-> FALSE, reg |-> 0, pub |-> 0]

Logged(rid, entry) ==
    [r \in DOMAIN reqlog \cup {rid} |-> IF r = rid THEN entry ELSE reqlog[r]]

(***************************************************************************)
(* ConnectionManager.connect / the client side of the socket.              *)
(***************************************************************************)
ConnUnchanged == UNCHANGED <<conn_state, active_connections>>
RegUnchanged ==
    UNCHANGED <<server_registry, router_registry, worker_registry, published, execVars,
                otherVars>>

Connect(c) ==
    /\ conn_state[c] = "new"
    /\ conn_state' = [conn_state EXCEPT ![c] = "open"]
    /\ active_connections' = active_connections \cup {c}
    /\ UNCHANGED <<inbox, wire_out, work_queue, response_queue, executors,
                   nframes, reqlog>>
    /\ RegUnchanged

\* The client writes one frame to its socket.
ClientSend(c, kind, tool) ==
    /\ conn_state[c] = "open"
    /\ nframes < MaxFrames
    /\ nframes' = nframes + 1
    /\ inbox' = [inbox EXCEPT ![c] = Append(@, Frame(nframes + 1, kind, tool))]
    /\ UNCHANGED <<wire_out, work_queue, response_queue, executors, reqlog>>
    /\ ConnUnchanged /\ RegUnchanged

(***************************************************************************)
(* Validator.validate_message: the error code, or "ok".  pydantic reports  *)
(* a schema mismatch and unparseable JSON alike as a ValidationError.      *)
(***************************************************************************)
validate_message(frame) ==
    IF frame.kind \in {"bad_schema", "not_json"} THEN "validation_error" ELSE "ok"

\* The id the server's default_factory mints while it parses the rid-th frame.
uuid4(rid) == 200 + rid

\* ClientMessage.model_validate_json for a frame it accepts: a header or a
\* correlation_id the frame lacks is filled in by the fields' default factories.
model_validate_json(frame) ==
    [frame EXCEPT !.cid = IF frame.cid = Absent THEN uuid4(frame.rid) ELSE frame.cid]

\* Router.route_request / _queue_tool_call: the command put on the work queue.
queue_tool_call_twice(conn, frame) ==
    work_queue \o <<ExecutionCommand(conn, frame), ExecutionCommand(conn, frame)>>
queue_tool_call(conn, frame) == Append(work_queue, ExecutionCommand(conn, frame))

\* MCPServer._handler: one iteration of the read loop.
HandlerStep(c) ==
    /\ conn_state[c] = "open"
    /\ inbox[c] # <<>>
    /\ LET frame == Head(inbox[c])
           code == validate_message(frame)
       IN  /\ inbox' = [inbox EXCEPT ![c] = Tail(@)]
           /\ IF code # "ok"
              THEN /\ response_queue' =
                        Append(response_queue,
                               ResponseCommand(c, ErrorResponse(frame.rid, NullId, code)))
                   /\ UNCHANGED <<work_queue, reqlog>>
              ELSE /\ work_queue' = queue_tool_call(c, model_validate_json(frame))
                   /\ reqlog' = Logged(frame.rid, LogEntry(c, model_validate_json(frame)))
                   /\ UNCHANGED response_queue
    /\ UNCHANGED <<wire_out, executors, nframes>>
    /\ ConnUnchanged /\ RegUnchanged

\* The socket of the connection is closed; its handler has yet to run.
SocketClose(c) ==
    /\ conn_state[c] = "open"
    /\ conn_state' = [conn_state EXCEPT ![c] = "socket_closed"]
    /\ UNCHANGED <<active_connections, inbox, wire_out, work_queue, response_queue,
                   executors, nframes, reqlog>>
    /\ RegUnchanged

\* ConnectionManager.disconnect: the map without the id.
disconnect_skipped(c) == active_connections
disconnect(c) == active_connections \ {c}

\* The socket closes: the read loop ends and the finally clause disconnects.
HandlerEnd(c) ==
    /\ conn_state[c] \in {"open", "socket_closed"}
    /\ conn_state' = [conn_state EXCEPT ![c] = "closed"]
    /\ active_connections' = disconnect(c)
    /\ inbox' = [inbox EXCEPT ![c] = <<>>]
    /\ UNCHANGED <<wire_out, work_queue, response_queue, executors, nframes, reqlog>>
    /\ RegUnchanged

\* An exception other than ConnectionClosedError leaves the handler while it has a
\* frame in hand (its task is cancelled at an await, say): nothing is queued for the
\* frame, the frames behind it are never read, and the finally clause disconnects.
HandlerRaise(c) ==
    /\ conn_state[c] = "open"
    /\ inbox[c] # <<>>
    /\ inbox' = [inbox EXCEPT ![c] = Tail(@)]
    /\ conn_state' = [conn_state EXCEPT ![c] = "closed"]
    /\ active_connections' = disconnect(c)
    /\ UNCHANGED <<wire_out, work_queue, response_queue, executors, nframes, reqlog>>
    /\ RegUnchanged

(***************************************************************************)
(* ExecutorWorker.                                                         *)
(***************************************************************************)
\* The correlation id a worker writes into the response header.
response_correlation_id_null(cmd) == NullId
response_correlation_id(cmd) == cmd.correlation_id

\* start/_process_command up to the await of tool.execute.
ExecGet(w) ==
    /\ executors[w].state = "idle"
    /\ work_queue # <<>>
    /\ LET cmd == Head(work_queue)
           tool == get_tool(worker_registry[w], cmd.tool_name)
       IN  /\ work_queue' = Tail(work_queue)
           /\ reqlog' = [reqlog EXCEPT ![cmd.rid].dispatched = TRUE,
                                       ![cmd.rid].reg = worker_registry[w].ver,
                                       ![cmd.rid].pub = published.ver]
           /\ IF tool = "None"
              THEN /\ response_queue' =
                        Append(response_queue,
                               ResponseCommand(cmd.connection_id,
                                   ErrorResponse(cmd.rid, response_correlation_id(cmd),
                                                 "tool_not_found")))
                   /\ UNCHANGED executors
              ELSE /\ executors' = [executors EXCEPT ![w] =
                        [state |-> "busy", cmd |-> cmd,
                         remaining |-> ToolDuration(tool)]]
                   /\ UNCHANGED response_queue
    /\ UNCHANGED <<inbox, wire_out, nframes>>
    /\ ConnUnchanged /\ RegUnchanged

\* _process_command after tool.execute returned or raised.
ExecDone(w) ==
    /\ executors[w].state = "busy"
    /\ executors[w].remaining = 0
    /\ LET cmd == executors[w].cmd
           message ==
               IF ToolRaises(cmd.tool_name)
               THEN ErrorResponse(cmd.rid, response_correlation_id(cmd), "execution_error")
               ELSE ToolCallResponse(cmd.rid, response_correlation_id(cmd),
                                     cmd.tool_name, ToolResult(cmd.tool_name))
       IN  response_queue' =
               Append(response_queue, ResponseCommand(cmd.connection_id, message))
    /\ executors' = [executors EXCEPT ![w] = Idle]
    /\ UNCHANGED <<inbox, wire_out, work_queue, nframes, reqlog>>
    /\ ConnUnchanged /\ RegUnchanged

(***************************************************************************)
(* SenderWorker._process_command with ConnectionManager.send_message.      *)
(***************************************************************************)
\* send_message's handler of ConnectionClosed: the map it leaves.
on_connection_closed_disconnect(c) == active_connections \ {c}
on_connection_closed(c) == active_connections

\* The message is serialized and written when the id is in the map and the socket is
\* open.  ConnectionClosed of websocket.send is passed over; an exception of
\* model_dump_json leaves send_message and is caught and printed by the worker's loop.
SenderStep ==
    /\ response_queue # <<>>
    /\ LET cmd == Head(response_queue)
           c == cmd.connection_id
       IN  IF c \notin active_connections \/ model_dump_json_raises(cmd.message)
           THEN UNCHANGED <<wire_out, active_connections>>
           ELSE IF conn_state[c] = "socket_closed"
           THEN /\ active_connections' = on_connection_closed(c)
                /\ UNCHANGED wire_out
           ELSE /\ wire_out' = [wire_out EXCEPT ![c] = Append(@, cmd.message)]
                /\ UNCHANGED active_connections
    /\ response_queue' = Tail(response_queue)
    /\ UNCHANGED <<inbox, work_queue, executors, nframes, reqlog, conn_state>>
    /\ RegUnchanged

(***************************************************************************)
(* on_registry_update -> MCPServer.update_tool_registry: the server       *)
(* replaces its registry reference, which is the one its tool executor     *)
(* reads; nothing else is assigned.                                        *)
(***************************************************************************)
update_tool_registry(new_registry) ==
    /\ server_registry' = new_registry
    /\ executor_registry' = new_registry
    /\ UNCHANGED <<router_registry, worker_registry>>

on_registry_update ==
    /\ published.ver < MaxUpdates
    /\ update_tool_registry(ToolRegistry(published.ver + 1))
    /\ published' = ToolRegistry(published.ver + 1)
    /\ UNCHANGED <<inbox, wire_out, work_queue, response_queue, executors,
                   nframes, reqlog, exec_calls, otherVars>>
    /\ ConnUnchanged

(***************************************************************************)
(* Time.                                                                   *)
(***************************************************************************)
LoopReady ==
    \/ \E c \in Conns : conn_state[c] = "open" /\ inbox[c] # <<>>
    \/ \E c \in Conns : conn_state[c] = "socket_closed"
    \/ work_queue # <<>> /\ \E w \in Workers : executors[w].state = "idle"
    \/ \E w \in BusyWorkers : executors[w].remaining = 0
    \/ response_queue # <<>>

Tick ==
    /\ ~LoopReady
    /\ BusyWorkers # {}
    /\ executors' = [w \in Workers |->
                        IF executors[w].state = "busy"
                        THEN [executors[w] EXCEPT !.remaining = @ - 1]
                        ELSE executors[w]]
    /\ reqlog' = [r \in DOMAIN reqlog |->
                     IF r \in QueuedRids THEN [reqlog[r] EXCEPT !.waited = TRUE]
                     ELSE reqlog[r]]
    /\ UNCHANGED <<inbox, wire_out, work_queue, response_queue, nframes>>
    /\ ConnUnchanged /\ RegUnchanged

(***************************************************************************)
(* The server pipeline on one connection, with every kind of tool.         *)
(***************************************************************************)
ServerNext ==
    \/ Connect("c1")
    \/ \E tool \in {"ping", "slow", "boom", "bar"} : ClientSend("c1", "tool_call", tool)
    \/ HandlerStep("c1")
    \/ HandlerEnd("c1")
    \/ \E w \in Workers : ExecGet(w)
    \/ \E w \in Workers : ExecDone(w)
    \/ SenderStep
    \/ Tick

(***************************************************************************)
(* The server pipeline on two connections, with every kind of frame.       *)
(***************************************************************************)
ValidatorNext ==
    \/ \E c \in Conns : Connect(c)
    \/ \E kind \in FrameKinds : ClientSend("c1", kind, "ping")
    \/ ClientSend("c2", "tool_call", "bar")
    \/ \E c \in Conns : HandlerStep(c)
    \/ \E w \in Workers : ExecGet(w)
    \/ \E w \in Workers : ExecDone(w)
    \/ SenderStep

(***************************************************************************)
(* The server pipeline on two connections whose sockets may close before   *)
(* their responses are sent; "blob" returns what JSON cannot carry.        *)
(***************************************************************************)
SenderNext ==
    \/ \E c \in Conns : Connect(c)
    \/ \E tool \in {"ping", "blob"} : ClientSend("c1", "tool_call", tool)
    \/ ClientSend("c2", "tool_call", "ping")
    \/ \E c \in Conns : SocketClose(c)
    \/ \E c \in Conns : HandlerStep(c)
    \/ \E c \in Conns : HandlerEnd(c)
    \/ \E w \in Workers : ExecGet(w)
    \/ \E w \in Workers : ExecDone(w)
    \/ SenderStep

(***************************************************************************)
(* The server pipeline on two connections whose handlers end in every way: *)
(* the socket closes, cleanly or not, or an exception leaves the handler.   *)
(***************************************************************************)
HandlerNext ==
    \/ \E c \in Conns : Connect(c)
    \/ \E c \in Conns : ClientSend(c, "tool_call", "ping")
    \/ \E c \in Conns : SocketClose(c)
    \/ \E c \in Conns : HandlerStep(c)
    \/ \E c \in Conns : HandlerEnd(c)
    \/ \E c \in Conns : HandlerRaise(c)
    \/ \E w \in Workers : ExecGet(w)
    \/ \E w \in Workers : ExecDone(w)
    \/ SenderStep

(***************************************************************************)
(* The server pipeline on two connections with responses of every kind:    *)
(* c1 gets results and validation errors, c2 errors of its tool, and c2    *)
(* may go while its responses are on their way.                            *)
(***************************************************************************)
RoutingNext ==
    \/ \E c \in Conns : Connect(c)
    \/ \E kind \in {"tool_call", "bad_schema"} : ClientSend("c1", kind, "ping")
    \/ ClientSend("c2", "tool_call", "boom")
    \/ \E c \in Conns : HandlerStep(c)
    \/ HandlerEnd("c2")
    \/ \E w \in Workers : ExecGet(w)
    \/ \E w \in Workers : ExecDone(w)
    \/ SenderStep

(***************************************************************************)
(* The server pipeline while the loader publishes new registries.          *)
(***************************************************************************)
ReloadNext ==
    \/ Connect("c1")
    \/ \E tool \in {"foo", "bar"} : ClientSend("c1", "tool_call", tool)
    \/ HandlerStep("c1")
    \/ \E w \in Workers : ExecGet(w)
    \/ \E w \in Workers : ExecDone(w)
    \/ SenderStep
    \/ on_registry_update

(***************************************************************************)
(* ToolExecutor.execute.  Between the lookup and the await of tool.execute *)
(* the coroutine does not yield, so that part is one step of the loop.     *)
(***************************************************************************)
\* The registry a running tool reads through its tool_registry argument.
injected_registry_live(k) == executor_registry
injected_registry(k) == exec_calls[k].execution_args

\* ToolRegistry.get_all_definitions, as the set of names defined.
get_all_definitions(registry) == registry.tools

\* The tool_registry argument tool.execute is called with: the injected registry
\* when the function declares the parameter, else what the request carried.
execution_args(tool, args) ==
    IF HasRegistryParam(tool) THEN executor_registry
    ELSE IF "tool_registry" \in args THEN ClientValue
    ELSE NoRegistry

\* self.func(**kwargs) raises TypeError for a keyword the function does not declare.
UnexpectedKeyword(call) ==
    call.execution_args # NoRegistry /\ ~HasRegistryParam(call.tool)

\* ToolCallResponseBody(tool=tool_name, result=result) raises ValidationError when a
\* required field of the class is not among the keyword arguments.
ToolCallResponseBodyKwargs == {"tool", "result"}

ResponseBodyRaises == ~(ToolCallResponseBodyFields \subseteq ToolCallResponseBodyKwargs)

\* execute() from its call to the await of tool.execute (or the return of tool_not_found).
ExecuteStart(k, tool_name, args) ==
    /\ exec_calls[k].state = "none"
    /\ LET tool == get_tool(executor_registry, tool_name)
           cid == CidOf(k)
       IN  exec_calls' = [exec_calls EXCEPT ![k] =
               IF tool = "None"
               THEN [NoCall EXCEPT !.state = "done", !.tool_name = tool_name,
                                   !.correlation_id = cid, !.args = args,
                                   !.lookup = executor_registry,
                                   !.response = ErrorResponse(k, cid, "tool_not_found")]
               ELSE [NoCall EXCEPT !.state = "running", !.tool_name = tool_name,
                                   !.correlation_id = cid, !.tool = tool,
                                   !.args = args,
                                   !.lookup = executor_registry,
                                   !.execution_args = execution_args(tool, args)]]
    /\ UNCHANGED <<serverVars, executor_registry, otherVars>>

\* tool.execute returns or raises, and execute() builds the response: an exception
\* of the tool or of the response's construction is answered with execution_error.
ExecuteFinish(k) ==
    /\ exec_calls[k].state = "running"
    /\ LET call == exec_calls[k]
           raised == ToolRaises(call.tool) \/ UnexpectedKeyword(call)
           ran == [call EXCEPT !.state = "done", !.returned = ~raised,
                               !.listed = IF ~raised /\ HasRegistryParam(call.tool)
                                          THEN get_all_definitions(injected_registry(k))
                                          ELSE {}]
       IN  exec_calls' = [exec_calls EXCEPT ![k] =
               IF raised \/ ResponseBodyRaises
               THEN [ran EXCEPT !.response = ErrorResponse(k, call.correlation_id,
                                                          "execution_error")]
               ELSE [ran EXCEPT !.response = ToolCallResponse(k, call.correlation_id,
                                                 call.tool_name, ToolResult(call.tool))]]
    /\ UNCHANGED <<serverVars, executor_registry, otherVars>>

\* The loader publishes a new registry while calls are in flight.
ExecutorUpdate ==
    /\ executor_registry.ver < MaxUpdates
    /\ update_tool_registry(ToolRegistry(executor_registry.ver + 1))
    /\ published' = ToolRegistry(executor_registry.ver + 1)
    /\ UNCHANGED <<conn_state, active_connections, inbox, wire_out, work_queue,
                   response_queue, executors, nframes, reqlog, exec_calls, otherVars>>

ExecutorNext ==
    \/ \E k \in Calls, tool \in {"list_tools_available", "foo", "bar", "boom"},
          args \in RequestArgs :
           ExecuteStart(k, tool, args)
    \/ \E k \in Calls : ExecuteFinish(k)
    \/ ExecutorUpdate

(***************************************************************************)
(* The tool watcher: ToolChangeHandler and ToolLoader.watch.  The observer *)
(* thread runs on_any_event; everything else runs on the event loop, whose *)
(* ready queue is first in, first out.  A timer that expires is moved to   *)
(* the ready queue by the tick that expires it.                            *)
(***************************************************************************)
NoTimer == 0

Handle(kind, id, b) == [kind |-> kind, id |-> id, burst |-> b]

WatchStates == {"watching", "cancelling", "handler_stopped", "joining", "stopped"}

WatcherInit ==
    /\ stopping = FALSE
    /\ debounce_timer = NoTimer
    /\ timers = {}
    /\ ready = <<>>
    /\ thread_pc = "idle"
    /\ watch_state = "watching"
    /\ disk = "foo"
    /\ nseen = 0
    /\ nevents = 0
    /\ burst = 0
    /\ since = [b \in 1..MaxEvents |-> 0]
    /\ reloads = <<>>

OnlyWatcher ==
    UNCHANGED <<serverVars, execVars, clientVars, stopVars, toolVars, protocolVars,
                loaderVars>>

\* The observer dispatches events until observer.stop() is called.
ObserverRunning == watch_state \in {"watching", "cancelling", "handler_stopped"}

\* An event is the first of a new burst when a full window has passed since the last.
NewBurst == burst = 0 \/ since[burst] >= DebounceTicks

\* on_any_event for a change of a .py file: returns when the handler is stopping,
\* otherwise goes on to hand _handle_debounce to the loop.
ThreadEvent(layout) ==
    /\ ObserverRunning
    /\ thread_pc = "idle"
    /\ nseen < MaxEvents
    /\ nseen' = nseen + 1
    /\ disk' = layout
    /\ IF stopping
       THEN UNCHANGED <<thread_pc, nevents, burst, since>>
       ELSE /\ thread_pc' = "posting"
            /\ nevents' = nevents + 1
            /\ burst' = IF NewBurst THEN burst + 1 ELSE burst
            /\ since' = [since EXCEPT ![burst'] = 0]
    /\ UNCHANGED <<stopping, debounce_timer, timers, ready, watch_state, reloads>>
    /\ OnlyWatcher

\* on_any_event for a directory event or a file that is not a .py file: returns.
ThreadIgnored(kind) ==
    /\ ObserverRunning
    /\ thread_pc = "idle"
    /\ nseen < MaxEvents
    /\ kind \in {"is_directory", "not_py"}
    /\ nseen' = nseen + 1
    /\ UNCHANGED <<stopping, debounce_timer, timers, ready, thread_pc, watch_state,
                   disk, nevents, burst, since, reloads>>
    /\ OnlyWatcher

\* loop.call_soon_threadsafe(self._handle_debounce)
ThreadPost ==
    /\ thread_pc = "posting"
    /\ thread_pc' = "idle"
    /\ ready' = Append(ready, Handle("debounce", nevents, burst))
    /\ UNCHANGED <<stopping, debounce_timer, timers, watch_state, disk, nseen,
                   nevents, burst, since, reloads>>
    /\ OnlyWatcher

\* The loop is inside watch()'s finally clause between event_handler.stop() and
\* observer.stop(): no other handle runs until that step suspends.
LoopFree == watch_state # "handler_stopped"

\* TimerHandle.cancel: a cancelled handle never runs, scheduled or already ready.
RECURSIVE WithoutTimers(_, _)
WithoutTimers(queue, ids) ==
    IF queue = <<>> THEN <<>>
    ELSE IF Head(queue).kind = "timer" /\ Head(queue).id \in ids
         THEN WithoutTimers(Tail(queue), ids)
         ELSE <<Head(queue)>> \o WithoutTimers(Tail(queue), ids)

\* The timers _handle_debounce cancels before it arms a new one.
cancel_previous_timer_never(timer) == {}
cancel_previous_timer(timer) == IF timer # NoTimer THEN {timer} ELSE {}

\* _handle_debounce, run by the loop: cancel the armed timer, arm a new one.
LoopRunDebounce ==
    /\ LoopFree
    /\ ready # <<>>
    /\ Head(ready).kind = "debounce"
    /\ LET h == Head(ready)
           cancelled == cancel_previous_timer(debounce_timer)
       IN  /\ timers' = {t \in timers : t.id \notin cancelled}
                           \cup {[id |-> h.id, remaining |-> DebounceTicks,
                                  burst |-> h.burst]}
           /\ ready' = WithoutTimers(Tail(ready), cancelled)
           /\ debounce_timer' = h.id
    /\ UNCHANGED <<stopping, thread_pc, watch_state, disk, nseen, nevents, burst,
                   since, reloads>>
    /\ OnlyWatcher

\* The timer's callback: asyncio.create_task(self._reload_callback()).
LoopRunTimer ==
    /\ LoopFree
    /\ ready # <<>>
    /\ Head(ready).kind = "timer"
    /\ ready' = Append(Tail(ready), Handle("reload", Head(ready).id, Head(ready).burst))
    /\ UNCHANGED <<stopping, debounce_timer, timers, thread_pc, watch_state, disk,
                   nseen, nevents, burst, since, reloads>>
    /\ OnlyWatcher

\* _reload_and_notify: load a new registry from disk and await on_update with it.
LoopRunReload ==
    /\ LoopFree
    /\ ready # <<>>
    /\ Head(ready).kind = "reload"
    /\ LET h == Head(ready)
           new_registry == load_registry(Len(reloads) + 1, disk)
       IN  /\ update_tool_registry(new_registry)
           /\ published' = new_registry
           /\ reloads' = Append(reloads,
                  [burst |-> h.burst, gap |-> since[h.burst], after_stop |-> stopping,
                   collided |-> Collides(Files(disk), {}), on_update |-> new_registry,
                   before |-> server_registry])
    /\ ready' = Tail(ready)
    /\ UNCHANGED <<stopping, debounce_timer, timers, thread_pc, watch_state, disk,
                   nseen, nevents, burst, since>>
    /\ UNCHANGED <<conn_state, active_connections, inbox, wire_out, work_queue,
                   response_queue, executors, nframes, reqlog, exec_calls, clientVars,
                   stopVars, toolVars, protocolVars, loaderVars>>

\* The watcher task is cancelled: its wakeup is queued behind the handles ready now.
CancelWatch ==
    /\ watch_state = "watching"
    /\ watch_state' = "cancelling"
    /\ ready' = Append(ready, Handle("stop", 0, 0))
    /\ UNCHANGED <<stopping, debounce_timer, timers, thread_pc, disk, nseen, nevents,
                   burst, since, reloads>>
    /\ OnlyWatcher

\* watch()'s finally clause reaches event_handler.stop(): set the flag, cancel the timer.
LoopRunStop ==
    /\ ready # <<>>
    /\ Head(ready).kind = "stop"
    /\ stopping' = TRUE
    /\ LET cancelled == IF debounce_timer # NoTimer THEN {debounce_timer} ELSE {}
       IN  /\ timers' = {t \in timers : t.id \notin cancelled}
           /\ ready' = WithoutTimers(Tail(ready), cancelled)
    /\ watch_state' = "handler_stopped"
    /\ UNCHANGED <<debounce_timer, thread_pc, disk, nseen, nevents, burst, since,
                   reloads>>
    /\ OnlyWatcher

\* observer.stop(), then the join is handed to the executor and watch() suspends.
ObserverStop ==
    /\ watch_state = "handler_stopped"
    /\ watch_state' = "joining"
    /\ UNCHANGED <<stopping, debounce_timer, timers, ready, thread_pc, disk, nseen,
                   nevents, burst, since, reloads>>
    /\ OnlyWatcher

\* observer.join() returns once the observer thread has left on_any_event.
ObserverJoin ==
    /\ watch_state = "joining"
    /\ thread_pc = "idle"
    /\ watch_state' = "stopped"
    /\ UNCHANGED <<stopping, debounce_timer, timers, ready, thread_pc, disk, nseen,
                   nevents, burst, since, reloads>>
    /\ OnlyWatcher

\* The expired timers as ready handles, in the order they were armed.
RECURSIVE Expired(_)
Expired(ts) ==
    IF ts = {} THEN <<>>
    ELSE LET t == CHOOSE t \in ts : \A u \in ts : t.id <= u.id
         IN  <<Handle("timer", t.id, t.burst)>> \o Expired(ts \ {t})

\* One tick of time passes on the idle loop; the timers that expire become ready.
WatchTick ==
    /\ ready = <<>>
    /\ thread_pc = "idle"
    /\ LoopFree
    /\ timers # {} \/ \E b \in 1..burst : since[b] < DebounceTicks
    /\ since' = [b \in 1..MaxEvents |->
                    IF b <= burst /\ since[b] < DebounceTicks THEN since[b] + 1
                    ELSE since[b]]
    /\ timers' = {[t EXCEPT !.remaining = t.remaining - 1] :
                     t \in {u \in timers : u.remaining > 1}}
    /\ ready' = Expired({t \in timers : t.remaining <= 1})
    /\ UNCHANGED <<stopping, debounce_timer, thread_pc, watch_state, disk, nseen,
                   nevents, burst, reloads>>
    /\ OnlyWatcher

WatcherNext ==
    \/ \E layout \in Layouts : ThreadEvent(layout)
    \/ \E kind \in {"is_directory", "not_py"} : ThreadIgnored(kind)
    \/ ThreadPost
    \/ LoopRunDebounce
    \/ LoopRunTimer
    \/ LoopRunReload
    \/ CancelWatch
    \/ LoopRunStop
    \/ ObserverStop
    \/ ObserverJoin
    \/ WatchTick

(***************************************************************************)
(* The client: MCPClient.call and the listener task.  A call is modelled   *)
(* from the point where its request has been built; the server is any peer *)
(* that answers a request it has received at most once, at any time.       *)
(***************************************************************************)
ClientCalls == 1..MaxClientCalls

CloseCalls == 1..MaxCloses

\* close() not yet called; pending: the calls it finds waiting for a response when
\* it goes past its guard (history).
NoCloseCall == [pc |-> "none", pending |-> {}]

NoClientCall == [state |-> "none", future |-> "none", error |-> "none", remaining |-> 0]

ClientInit ==
    /\ connection_open = TRUE
    /\ socket_closing = FALSE
    /\ pending_requests = {}
    /\ client_calls = [k \in ClientCalls |-> NoClientCall]
    /\ client_socket = <<>>
    /\ unanswered = {}
    /\ listener = "running"
    /\ listener_cancelled = FALSE
    /\ listener_raised = FALSE
    /\ listener_log = <<>>
    /\ close_calls = [c \in CloseCalls |-> NoCloseCall]

OnlyClient ==
    UNCHANGED <<serverVars, execVars, watchVars, stopVars, toolVars, protocolVars,
                loaderVars>>

\* The future of an entry of the pending table; an id that no call has is in no entry.
FutureDone(k) ==
    /\ k \in ClientCalls
    /\ client_calls[k].future \in {"result", "exception", "cancelled"}

\* The call's wait_for has timed out: it cancelled the future.
TimedOut(k) ==
    /\ k \in ClientCalls
    /\ client_calls[k].future = "cancelled"
    /\ client_calls[k].state \in {"waiting", "raised_timeout"}

\* self._pending_requests[correlation_id] = future, ahead of the send.
register_pending_skipped(pending, k) == pending
register_pending(pending, k) == pending \cup {k}

\* call() up to the registration of the future; it raises when not connected.
CallRegister(k) ==
    /\ client_calls[k].state = "none"
    /\ \A j \in ClientCalls : j < k => client_calls[j].state # "none"
    /\ IF connection_open
       THEN /\ client_calls' = [client_calls EXCEPT ![k].state = "sending",
                                                    ![k].future = "pending"]
            /\ pending_requests' = register_pending(pending_requests, k)
       ELSE /\ client_calls' = [client_calls EXCEPT ![k].state = "raised_not_connected"]
            /\ UNCHANGED pending_requests
    /\ UNCHANGED <<connection_open, socket_closing, client_socket, unanswered, listener,
                   listener_cancelled, listener_raised, listener_log, close_calls>>
    /\ OnlyClient

\* The except clause of call(): the entry is removed, then the error is raised.
unregister_skipped(pending, k) == pending
unregister(pending, k) == pending \ {k}

\* await connection.send(...): the frame is written and wait_for starts, or the
\* connection is closing or closed and the except clause runs.
CallSend(k) ==
    /\ client_calls[k].state = "sending"
    /\ IF connection_open /\ ~socket_closing
       THEN /\ client_calls' = [client_calls EXCEPT ![k].state = "waiting",
                                                    ![k].remaining = TimeoutTicks]
            /\ unanswered' = unanswered \cup {k}
            /\ UNCHANGED pending_requests
       ELSE /\ client_calls' = [client_calls EXCEPT ![k].state = "raised_connection"]
            /\ pending_requests' = unregister(pending_requests, k)
            /\ UNCHANGED unanswered
    /\ UNCHANGED <<connection_open, socket_closing, client_socket, listener,
                   listener_cancelled, listener_raised, listener_log, close_calls>>
    /\ OnlyClient

\* What wait_for makes of the future it waits for when its deadline passes.
wait_for_expired_ignored == "pending"
wait_for_expired == "cancelled"

\* wait_for's deadline passes with the future not done: wait_for cancels the future.
TimeoutFire(k) ==
    /\ client_calls[k].state = "waiting"
    /\ client_calls[k].future = "pending"
    /\ client_calls[k].remaining = 0
    /\ client_calls' = [client_calls EXCEPT ![k].future = wait_for_expired]
    /\ UNCHANGED <<connection_open, socket_closing, pending_requests, client_socket,
                   unanswered, listener, listener_cancelled, listener_raised,
                   listener_log, close_calls>>
    /\ OnlyClient

\* The task that awaits call() is cancelled while the future is not done: the future
\* is cancelled and CancelledError leaves call() past its except clause.
CallCancel(k) ==
    /\ client_calls[k].state = "waiting"
    /\ client_calls[k].future = "pending"
    /\ client_calls' = [client_calls EXCEPT ![k].future = "cancelled",
                                            ![k].state = "cancelled"]
    /\ UNCHANGED <<connection_open, socket_closing, pending_requests, client_socket,
                   unanswered, listener, listener_cancelled, listener_raised,
                   listener_log, close_calls>>
    /\ OnlyClient

\* call() resumes from wait_for: it returns the result, lets the future's exception
\* pass, or, on a timeout, unregisters the entry and raises TimeoutError.
CallResume(k) ==
    /\ client_calls[k].state = "waiting"
    /\ FutureDone(k)
    /\ client_calls' = [client_calls EXCEPT ![k].state =
           CASE client_calls[k].future = "result" -> "returned"
             [] client_calls[k].future = "exception" -> "raised_error"
             [] client_calls[k].future = "cancelled" -> "raised_timeout"]
    /\ pending_requests' = IF TimedOut(k) THEN unregister(pending_requests, k)
                           ELSE pending_requests
    /\ UNCHANGED <<connection_open, socket_closing, client_socket, unanswered, listener,
                   listener_cancelled, listener_raised, listener_log, close_calls>>
    /\ OnlyClient

\* The server answers a request it has received.
ServerRespond(k, type) ==
    /\ k \in unanswered
    /\ connection_open
    /\ type \in {"tool_call_response", "error_response"}
    /\ unanswered' = unanswered \ {k}
    /\ client_socket' = Append(client_socket, [k |-> k, type |-> type, stray |-> FALSE])
    /\ UNCHANGED <<connection_open, socket_closing, pending_requests, client_calls,
                   listener, listener_cancelled, listener_raised, listener_log,
                   close_calls>>
    /\ OnlyClient

\* The responses nobody is waiting for that the server has sent so far.
StraySent ==
    Cardinality({i \in DOMAIN client_socket : client_socket[i].stray})
        + Cardinality({i \in DOMAIN listener_log : listener_log[i].stray})

\* The server sends a response that answers no request: with the all-zero correlation
\* id (id 0), or with the id of a request it has answered already.
ServerRespondStray(id, type) ==
    /\ connection_open
    /\ StraySent < MaxStray
    /\ \/ id = NullId
       \/ /\ id \in ClientCalls \ unanswered
          /\ client_calls[id].state \notin {"none", "sending", "raised_not_connected",
                                             "raised_connection"}
    /\ client_socket' = Append(client_socket, [k |-> id, type |-> type, stray |-> TRUE])
    /\ UNCHANGED <<connection_open, socket_closing, pending_requests, client_calls,
                   unanswered, listener, listener_cancelled, listener_raised, listener_log,
                   close_calls>>
    /\ OnlyClient

\* The connection is closed from the server's side.
ConnectionLost ==
    /\ connection_open
    /\ connection_open' = FALSE
    /\ UNCHANGED <<socket_closing, pending_requests, client_calls, client_socket,
                   unanswered, listener, listener_cancelled, listener_raised,
                   listener_log, close_calls>>
    /\ OnlyClient

\* The futures of the given entries are failed with the error, done or not.
FailPending_unguarded(calls, ks, error) ==
    [k \in ClientCalls |->
        IF k \in ks THEN [calls[k] EXCEPT !.future = "exception", !.error = error]
        ELSE calls[k]]

\* The futures of the given entries that are not done are failed with the error.
FailPending(calls, ks, error) ==
    [k \in ClientCalls |->
        IF k \in ks /\ calls[k].future = "pending"
        THEN [calls[k] EXCEPT !.future = "exception", !.error = error]
        ELSE calls[k]]

\* The listener's test after the pop: the response is dropped when no entry was
\* found or the entry's future is done.
listener_drops_done(found, done) == done
listener_drops_unknown(found, done) == ~found
listener_drops(found, done) == ~found \/ done

\* The attributes of a parsed ErrorResponse: the fields the class and its base declare.
\* One pass of the listener's loop body over the next response: pop the entry, drop
\* the response or complete the future.  Reading response.error of an ErrorResponse
\* raises AttributeError, and completing a future that is already done raises
\* InvalidStateError; either ends the listener through its finally clause.
ListenerStep ==
    /\ listener = "running"
    /\ ~listener_cancelled
    /\ client_socket # <<>>
    /\ LET msg == Head(client_socket)
           k == msg.k
           found == k \in pending_requests
           done == FutureDone(k)
           popped == pending_requests \ {k}
           entry(outcome) ==
               [k |-> k, late |-> TimedOut(k), type |-> msg.type, outcome |-> outcome,
                stray |-> msg.stray, others |-> popped,
                altered |-> {j \in ClientCalls \ {k} : client_calls'[j] # client_calls[j]}]
           crash(outcome) ==
               /\ listener' = "stopped"
               /\ listener_raised' = TRUE
               /\ client_calls' = FailPending(client_calls, popped, "listener_terminated")
               /\ pending_requests' = {}
               /\ listener_log' = Append(listener_log, entry(outcome))
       IN  IF listener_drops(found, done)
           THEN /\ UNCHANGED <<client_calls, listener, listener_raised>>
                /\ pending_requests' = popped
                /\ listener_log' = Append(listener_log, entry("dropped"))
           ELSE IF msg.type = "error_response" /\ "error" \notin ErrorResponseFields
           THEN crash("attribute_error")
           ELSE IF done
           THEN crash("invalid_state")
           ELSE /\ client_calls' = [client_calls EXCEPT
                       ![k].future = IF msg.type = "tool_call_response" THEN "result"
                                     ELSE "exception",
                       ![k].error = IF msg.type = "tool_call_response" THEN "none"
                                    ELSE "tool_execution_error"]
                /\ pending_requests' = popped
                /\ listener_log' = Append(listener_log, entry("completed"))
                /\ UNCHANGED <<listener, listener_raised>>
    /\ client_socket' = Tail(client_socket)
    /\ UNCHANGED <<connection_open, socket_closing, unanswered, listener_cancelled,
                   close_calls>>
    /\ OnlyClient

\* The listener's finally clause: what is still pending is failed and the table is
\* cleared.
ListenerFinally ==
    /\ listener' = "stopped"
    /\ client_calls' = FailPending(client_calls, pending_requests, "listener_terminated")
    /\ pending_requests' = {}

\* The socket's iterator raises ConnectionClosed.
ListenerEnd ==
    /\ listener = "running"
    /\ ~listener_cancelled
    /\ ~connection_open
    /\ client_socket = <<>>
    /\ ListenerFinally
    /\ UNCHANGED <<connection_open, socket_closing, client_socket, unanswered,
                   listener_cancelled, listener_raised, listener_log, close_calls>>
    /\ OnlyClient

\* The listener task resumes after close() cancelled it: CancelledError passes both
\* except clauses and the finally clause runs.
ListenerCancelled ==
    /\ listener = "running"
    /\ listener_cancelled
    /\ ListenerFinally
    /\ UNCHANGED <<connection_open, socket_closing, client_socket, unanswered,
                   listener_cancelled, listener_raised, listener_log, close_calls>>
    /\ OnlyClient

\* The calls that wait for a response: registered, with a future that is not done.
StillPending == {k \in pending_requests : client_calls[k].future = "pending"}

\* close() after the listener is done: fail what is pending, clear the table and
\* start closing the socket.
CloseAbort(c) ==
    /\ client_calls' = FailPending(client_calls, pending_requests, "connection_closed")
    /\ pending_requests' = {}
    /\ socket_closing' = TRUE
    /\ close_calls' = [close_calls EXCEPT
           ![c].pc = "closing",
           ![c].pending = IF close_calls[c].pc = "none" THEN StillPending ELSE @]

\* The guard of close(): the client is not connected.
close_returns_at_once_never == FALSE
close_returns_at_once == ~connection_open

\* close() is called: it returns at once on a client that is not connected; it
\* cancels a listener that is not done and waits for it; otherwise it goes on.
CloseStart(c) ==
    /\ close_calls[c].pc = "none"
    /\ \A b \in CloseCalls : b < c => close_calls[b].pc # "none"
    /\ IF close_returns_at_once
       THEN /\ close_calls' = [close_calls EXCEPT ![c].pc = "returned_at_once"]
            /\ UNCHANGED <<socket_closing, pending_requests, client_calls,
                           listener_cancelled>>
       ELSE IF listener = "running"
       THEN /\ listener_cancelled' = TRUE
            /\ close_calls' = [close_calls EXCEPT ![c] =
                    [pc |-> "awaiting_listener", pending |-> StillPending]]
            /\ UNCHANGED <<socket_closing, pending_requests, client_calls>>
       ELSE /\ CloseAbort(c)
            /\ UNCHANGED listener_cancelled
    /\ UNCHANGED <<connection_open, client_socket, unanswered, listener,
                   listener_raised, listener_log>>
    /\ OnlyClient

\* gather(listener_task) returns: close() goes on.
CloseResume(c) ==
    /\ close_calls[c].pc = "awaiting_listener"
    /\ listener = "stopped"
    /\ CloseAbort(c)
    /\ UNCHANGED <<connection_open, client_socket, unanswered, listener,
                   listener_cancelled, listener_raised, listener_log>>
    /\ OnlyClient

\* connection.close() returns: the socket is closed and the connection forgotten.
CloseEnd(c) ==
    /\ close_calls[c].pc = "closing"
    /\ connection_open' = FALSE
    /\ close_calls' = [close_calls EXCEPT ![c].pc = "returned"]
    /\ UNCHANGED <<socket_closing, pending_requests, client_calls, client_socket,
                   unanswered, listener, listener_cancelled, listener_raised,
                   listener_log>>
    /\ OnlyClient

ClientLoopReady ==
    \/ listener = "running" /\ (client_socket # <<>> \/ ~connection_open
                                  \/ listener_cancelled)
    \/ \E c \in CloseCalls : close_calls[c].pc \in {"awaiting_listener", "closing"}
    \/ \E k \in ClientCalls :
           \/ client_calls[k].state = "sending"
           \/ client_calls[k].state = "waiting" /\ FutureDone(k)
           \/ /\ client_calls[k].state = "waiting"
              /\ client_calls[k].remaining = 0

\* One tick of time passes for the calls that wait on the idle loop.
ClientTick ==
    /\ ~ClientLoopReady
    /\ \E k \in ClientCalls : client_calls[k].state = "waiting"
    /\ client_calls' = [k \in ClientCalls |->
           IF client_calls[k].state = "waiting"
           THEN [client_calls[k] EXCEPT !.remaining = client_calls[k].remaining - 1]
           ELSE client_calls[k]]
    /\ UNCHANGED <<connection_open, socket_closing, pending_requests, client_socket,
                   unanswered, listener, listener_cancelled, listener_raised,
                   listener_log, close_calls>>
    /\ OnlyClient

ClientNext ==
    \/ \E k \in ClientCalls : CallRegister(k)
    \/ \E k \in ClientCalls : CallSend(k)
    \/ \E k \in ClientCalls : TimeoutFire(k)
    \/ \E k \in ClientCalls : CallCancel(k)
    \/ \E k \in ClientCalls : CallResume(k)
    \/ \E k \in ClientCalls, type \in {"tool_call_response", "error_response"} :
           ServerRespond(k, type)
    \/ ConnectionLost
    \/ ListenerStep
    \/ ListenerEnd
    \/ ClientTick

ClosingCalls == 1..MaxClosingCalls

\* The client on a connection that stays open, with a server that may answer a call,
\* not answer it, or send a response with the all-zero correlation id.
TimeoutNext ==
    \/ \E k \in ClosingCalls : CallRegister(k)
    \/ \E k \in ClosingCalls : CallSend(k)
    \/ \E k \in ClosingCalls : TimeoutFire(k)
    \/ \E k \in ClosingCalls : CallResume(k)
    \/ \E k \in ClosingCalls, type \in {"tool_call_response", "error_response"} :
           ServerRespond(k, type)
    \/ ServerRespondStray(NullId, "tool_call_response")
    \/ ListenerStep
    \/ ClientTick

\* The client with a server that also sends responses nobody is waiting for.
StrayNext ==
    \/ \E k \in ClosingCalls : CallRegister(k)
    \/ \E k \in ClosingCalls : CallSend(k)
    \/ \E k \in ClosingCalls : TimeoutFire(k)
    \/ \E k \in ClosingCalls : CallResume(k)
    \/ \E k \in ClosingCalls, type \in {"tool_call_response", "error_response"} :
           ServerRespond(k, type)
    \/ \E id \in ClosingCalls \cup {NullId},
          type \in {"tool_call_response", "error_response"} : ServerRespondStray(id, type)
    \/ ConnectionLost
    \/ ListenerStep
    \/ ListenerEnd
    \/ ClientTick

CloseNext ==
    \/ \E k \in ClosingCalls : CallRegister(k)
    \/ \E k \in ClosingCalls : CallSend(k)
    \/ \E k \in ClosingCalls : TimeoutFire(k)
    \/ \E k \in ClosingCalls : CallCancel(k)
    \/ \E k \in ClosingCalls : CallResume(k)
    \/ \E k \in ClosingCalls, type \in {"tool_call_response", "error_response"} :
           ServerRespond(k, type)
    \/ ConnectionLost
    \/ ListenerStep
    \/ ListenerEnd
    \/ ListenerCancelled
    \/ \E c \in CloseCalls : CloseStart(c)
    \/ \E c \in CloseCalls : CloseResume(c)
    \/ \E c \in CloseCalls : CloseEnd(c)
    \/ ClientTick

(***************************************************************************)
(* ServerHandle: the handle start_server returns holds the server task and *)
(* the watcher task.  stop() cancels the tasks that are not done and       *)
(* awaits both.  A cancelled server task leaves `async with serve(...)`,   *)
(* which closes the listening socket, and its finally clause cancels and   *)
(* awaits the worker tasks.  The caller awaits stop(): calls do not        *)
(* overlap.  The steps of the server task and of the workers touch nothing *)
(* the watcher's handles read, so they are not ordered with them.          *)
(***************************************************************************)
StopCalls == 1..MaxStops

WorkerTasks == 1..(num_executors + num_senders)

StopInit ==
    /\ server_task = "serving"
    /\ worker_tasks = [w \in WorkerTasks |-> "running"]
    /\ listening = TRUE
    /\ stop_calls = [c \in StopCalls |-> "none"]

OnlyStop == UNCHANGED <<serverVars, execVars, clientVars, toolVars, protocolVars, loaderVars>>

\* `if not task.done(): task.cancel()`
task_cancel_always(task) == "cancelled"
task_cancel(task) == IF task = "done" THEN task ELSE "cancelled"

\* stop() is called: cancel the server task and the watcher task, then await them.
HandleStop(c) ==
    /\ stop_calls[c] = "none"
    /\ \A d \in StopCalls : stop_calls[d] \in {"none", "returned"}
    /\ \A d \in StopCalls : d < c => stop_calls[d] # "none"
    /\ stop_calls' = [stop_calls EXCEPT ![c] = "awaiting"]
    /\ server_task' = task_cancel(server_task)
    /\ IF watch_state = "watching"
       THEN /\ watch_state' = "cancelling"
            /\ ready' = Append(ready, Handle("stop", 0, 0))
       ELSE UNCHANGED <<watch_state, ready>>
    /\ UNCHANGED <<worker_tasks, listening, stopping, debounce_timer, timers,
                   thread_pc, disk, nseen, nevents, burst, since, reloads>>
    /\ OnlyStop

\* CancelledError reaches the server task at `await asyncio.Future()`: the serve
\* context closes the listening socket, then _stop_workers cancels every worker.
ServerTaskCancelled ==
    /\ server_task = "cancelled"
    /\ server_task' = "stopping_workers"
    /\ listening' = FALSE
    /\ worker_tasks' = [w \in WorkerTasks |-> "cancelled"]
    /\ UNCHANGED <<stop_calls, watchVars>>
    /\ OnlyStop

\* A worker's loop catches CancelledError and breaks.
WorkerCancelled(w) ==
    /\ worker_tasks[w] = "cancelled"
    /\ worker_tasks' = [worker_tasks EXCEPT ![w] = "done"]
    /\ UNCHANGED <<server_task, listening, stop_calls, watchVars>>
    /\ OnlyStop

\* The gather of _stop_workers returns and the server task ends.
ServerTaskEnd ==
    /\ server_task = "stopping_workers"
    /\ \A w \in WorkerTasks : worker_tasks[w] = "done"
    /\ server_task' = "done"
    /\ UNCHANGED <<worker_tasks, listening, stop_calls, watchVars>>
    /\ OnlyStop

\* Both tasks are done: the gather of stop() completes and the wakeup of stop()
\* is queued behind the handles that are ready now.
HandleStopWake(c) ==
    /\ stop_calls[c] = "awaiting"
    /\ server_task = "done"
    /\ watch_state = "stopped"
    /\ stop_calls' = [stop_calls EXCEPT ![c] = "waking"]
    /\ ready' = Append(ready, Handle("stop_return", c, 0))
    /\ UNCHANGED <<server_task, worker_tasks, listening, stopping, debounce_timer,
                   timers, thread_pc, watch_state, disk, nseen, nevents, burst, since,
                   reloads>>
    /\ OnlyStop

\* stop() resumes and returns.
HandleStopReturn ==
    /\ ready # <<>>
    /\ Head(ready).kind = "stop_return"
    /\ stop_calls' = [stop_calls EXCEPT ![Head(ready).id] = "returned"]
    /\ ready' = Tail(ready)
    /\ UNCHANGED <<server_task, worker_tasks, listening, stopping, debounce_timer,
                   timers, thread_pc, watch_state, disk, nseen, nevents, burst, since,
                   reloads>>
    /\ OnlyStop

\* The tasks that are not done: the handle's two, the workers, and the reload
\* tasks a debounce timer created.
PendingTasks ==
    (IF server_task # "done" THEN {"server"} ELSE {})
      \cup (IF watch_state # "stopped" THEN {"watcher"} ELSE {})
      \cup {"worker" : w \in {v \in WorkerTasks : worker_tasks[v] # "done"}}
      \cup {"reload" : i \in {j \in DOMAIN ready : ready[j].kind = "reload"}}

StopNext ==
    \/ \E layout \in Layouts : ThreadEvent(layout)
    \/ \E kind \in {"is_directory", "not_py"} : ThreadIgnored(kind)
    \/ ThreadPost
    \/ LoopRunDebounce
    \/ LoopRunTimer
    \/ LoopRunReload
    \/ LoopRunStop
    \/ ObserverStop
    \/ ObserverJoin
    \/ WatchTick
    \/ \E c \in StopCalls : HandleStop(c)
    \/ ServerTaskCancelled
    \/ \E w \in WorkerTasks : WorkerCancelled(w)
    \/ ServerTaskEnd
    \/ \E c \in StopCalls : HandleStopWake(c)
    \/ HandleStopReturn

(***************************************************************************)
(* ToolRegistry.register and get_all_definitions, on the dict's order.     *)
(* A dict keeps its keys in the order of insertion; sorted() is stable: it *)
(* orders by the key and keeps the given order among equal keys.           *)
(***************************************************************************)
\* Tool names, in ascending order of their strings.
AscendingNames == <<"bar", "boom", "foo", "ping", "slow">>

ToolNames == {AscendingNames[i] : i \in 1..MaxTools}

\* Position of a name in the order of strings.
NameRank(name) == CHOOSE i \in DOMAIN AscendingNames : AscendingNames[i] = name

Range(seq) == {seq[i] : i \in DOMAIN seq}

\* The functions a tool can wrap.
Funcs == {"f", "g"}

Tool(name, f) == [name |-> name, func |-> f]

NoTool == Tool("None", "None")

\* The keys of a dict.
Keys(dict) == {dict[i].key : i \in DOMAIN dict}

\* dict[key]
Lookup(dict, key) ==
    IF key \in Keys(dict)
    THEN dict[CHOOSE i \in DOMAIN dict : dict[i].key = key].value
    ELSE NoTool

\* dict[key] = value: a key that is present keeps its place, a new key goes last.
dict_set(dict, key, value) ==
    IF key \in Keys(dict)
    THEN [i \in DOMAIN dict |-> IF dict[i].key = key THEN [key |-> key, value |-> value]
                                ELSE dict[i]]
    ELSE Append(dict, [key |-> key, value |-> value])

RegistryInit ==
    /\ tools = <<>>
    /\ register_log = [called |-> FALSE, tool |-> NoTool, before |-> <<>>, raised |-> FALSE]
    /\ definitions = [of |-> <<>>, list |-> <<>>]

OnlyTools ==
    UNCHANGED <<serverVars, execVars, watchVars, clientVars, stopVars, protocolVars,
                loaderVars>>

\* register: a name already in the dict raises ValueError, else the tool is stored
\* under its name.
register(tool) ==
    /\ LET raised == register_raises(Keys(tools), tool.name)
       IN  /\ tools' = IF raised THEN tools ELSE dict_set(tools, tool.name, tool)
           /\ register_log' = [called |-> TRUE, tool |-> tool, before |-> tools,
                               raised |-> raised]
    /\ UNCHANGED <<definitions, func, arguments>>
    /\ OnlyTools

\* Tool.get_definition, as far as the name.
get_definition(tool) == [name |-> tool.name]

\* key=lambda t: t.name
sort_key_constant(definition) == 0
sort_key(definition) == NameRank(definition.name)

\* sorted(list, key=...): each element goes behind the elements whose key is not greater.
RECURSIVE sorted(_)
sorted(list) ==
    IF list = <<>> THEN <<>>
    ELSE LET front == sorted(SubSeq(list, 1, Len(list) - 1))
             last == list[Len(list)]
             keep == {i \in DOMAIN front : sort_key(front[i]) <= sort_key(last)}
             n == Cardinality(keep)
         IN  SubSeq(front, 1, n) \o <<last>> \o SubSeq(front, n + 1, Len(front))

\* get_all_definitions: the definitions of the dict's values, sorted by name.
get_all_definitions_list ==
    /\ definitions' = [of |-> tools,
                       list |-> sorted([i \in DOMAIN tools |-> get_definition(tools[i].value)])]
    /\ UNCHANGED <<tools, register_log, func, arguments>>
    /\ OnlyTools

RegistryNext ==
    \/ \E name \in ToolNames, f \in Funcs : register(Tool(name, f))
    \/ get_all_definitions_list

(***************************************************************************)
(* Tool._introspect_args: the public arguments of a tool function.         *)
(***************************************************************************)
ParamNames == {"self", "tool_registry", "x", "y"}

IntrospectInit ==
    /\ func = <<>>
    /\ arguments = [of |-> <<>>, args |-> <<>>]

\* The next parameter of a function's signature.
DeclareParam(name) ==
    /\ Len(func) < MaxParams
    /\ name \notin Range(func)
    /\ func' = Append(func, name)
    /\ UNCHANGED <<tools, register_log, definitions, arguments>>
    /\ OnlyTools

\* The parameter names the loop skips.
hidden_params_none == {}
hidden_params == {"self", "tool_registry"}

\* The loop over sig.parameters.values(): skip or append, in order.
RECURSIVE introspect_args(_)
introspect_args(params) ==
    IF params = <<>> THEN <<>>
    ELSE IF Head(params) \in hidden_params THEN introspect_args(Tail(params))
    ELSE <<Head(params)>> \o introspect_args(Tail(params))

\* Tool.__init__: self.arguments = self._introspect_args(func)
ToolInit ==
    /\ arguments' = [of |-> func, args |-> introspect_args(func)]
    /\ UNCHANGED <<tools, register_log, definitions, func>>
    /\ OnlyTools

IntrospectNext ==
    \/ \E name \in ParamNames : DeclareParam(name)
    \/ ToolInit

(***************************************************************************)
(* The tool call request from MCPClient.call to ToolExecutor.execute: the  *)
(* name each of them gives the field that carries the tool.  A body is the *)
(* JSON object of the request's body; args are named by a token.           *)
(***************************************************************************)
RequestTools == {"ping", "foo"}

ArgTokens == {"none", "x"}

\* class ToolCallRequestBody(BaseModel): tool_name: str, args: Dict[str, Any]
ToolCallRequestBodyFields == {"tool_name", "args"}

\* MCPClient.call: ToolCallRequestBody(tool=tool, args=args)
ClientBodyKwargs(tool, args) == [tool |-> tool, args |-> args]

\* A pydantic constructor raises ValidationError when a required field is not given.
RequiredMissing(fields, kwargs) == ~(fields \subseteq DOMAIN kwargs)

NoBuilt == [state |-> "none", tool |-> "None", args |-> "none", body |-> <<>>]

NoReceived ==
    [state |-> "none", body |-> <<>>, accepted |-> FALSE, router |-> "None",
     executor |-> "None"]

\* The JSON bodies a peer may send for a tool and args: under either name of the field.
Bodies(tool, args) ==
    {[tool |-> tool, args |-> args], [tool_name |-> tool, args |-> args]}

ProtocolInit ==
    /\ built = [k \in ClientCalls |-> NoBuilt]
    /\ received = [k \in ClientCalls |-> NoReceived]

OnlyProtocol ==
    UNCHANGED <<serverVars, execVars, watchVars, clientVars, stopVars, toolVars, loaderVars>>

\* MCPClient.call up to the request it sends: the body is built first, then the request.
BuildRequest(k, tool, args) ==
    /\ built[k].state = "none"
    /\ built' = [built EXCEPT ![k] =
           IF RequiredMissing(ToolCallRequestBodyFields, ClientBodyKwargs(tool, args))
           THEN [NoBuilt EXCEPT !.state = "ValidationError", !.tool = tool, !.args = args]
           ELSE [state |-> "sent", tool |-> tool, args |-> args,
                 body |-> pydantic_init(ToolCallRequestBodyFields, <<>>,
                                        ClientBodyKwargs(tool, args))]]
    /\ UNCHANGED received
    /\ OnlyProtocol

\* ClientMessage.model_validate_json on a tool call with this body.
validator_accepts(body) == ~RequiredMissing(ToolCallRequestBodyFields, body)

\* An attribute of the validated body: pydantic keeps the declared fields only.
Attribute(body, name) ==
    IF name \in ToolCallRequestBodyFields /\ name \in DOMAIN body
    THEN body[name] ELSE "AttributeError"

\* Router._queue_tool_call: request.body.tool_name
router_tool_name(body) == Attribute(body, "tool_name")

\* ToolExecutor.execute: request.body.tool
executor_tool_name(body) == Attribute(body, "tool")

\* A frame with this body reaches the server: the validator, then what the router and
\* the executor read from the request the validator returned.
ReceiveRequest(k, body) ==
    /\ received[k].state = "none"
    /\ received' = [received EXCEPT ![k] =
           IF validator_accepts(body)
           THEN [state |-> "done", body |-> body, accepted |-> TRUE,
                 router |-> router_tool_name(body), executor |-> executor_tool_name(body)]
           ELSE [NoReceived EXCEPT !.state = "done", !.body = body]]
    /\ UNCHANGED built
    /\ OnlyProtocol

ProtocolNext ==
    \/ \E k \in ClientCalls, tool \in RequestTools, args \in ArgTokens :
           BuildRequest(k, tool, args)
    \/ \E k \in ClientCalls, tool \in RequestTools, args \in ArgTokens :
           \E body \in Bodies(tool, args) : ReceiveRequest(k, body)

(***************************************************************************)
(* ToolLoader.load_registry and the registries it makes, as objects: heap  *)
(* is the sequence of the ToolRegistry objects constructed so far.  A      *)
(* registry is handed to the server when load_registry has returned it:   *)
(* to MCPServer's constructor the first time, to on_update afterwards.     *)
(***************************************************************************)
\* ToolRegistry(): a new object with an empty _tools.
NewRegistry == [tools |-> {}, published |-> FALSE, at_publication |-> {}]

NotLoading == [registry |-> 0, files |-> <<>>]

LoaderInit ==
    /\ heap = <<>>
    /\ loader = NotLoading

OnlyLoader ==
    UNCHANGED <<serverVars, execVars, watchVars, clientVars, stopVars, toolVars,
                protocolVars>>

\* load_registry: registry = ToolRegistry(), then the files of the repositories.
LoadRegistryStart(layout) ==
    /\ loader.registry = 0
    /\ Len(heap) < MaxLoads
    /\ heap' = Append(heap, NewRegistry)
    /\ loader' = [registry |-> Len(heap) + 1, files |-> Files(layout)]
    /\ OnlyLoader

\* The object _load_tools_from_file calls register on: its registry parameter.
register_on_published ==
    IF \E i \in DOMAIN heap : heap[i].published
    THEN CHOOSE i \in DOMAIN heap : heap[i].published
    ELSE loader.registry
register_on == loader.registry

\* _load_tools_from_file, one member: register adds the tool, or raises, which ends
\* the file.
LoadMember ==
    /\ loader.registry # 0
    /\ loader.files # <<>>
    /\ LET members == Head(loader.files)
           registry == register_on
       IN  IF members = <<>>
           THEN /\ loader' = [loader EXCEPT !.files = Tail(@)]
                /\ UNCHANGED heap
           ELSE IF register_raises(heap[registry].tools, Head(members))
           THEN /\ loader' = [loader EXCEPT !.files = Tail(@)]
                /\ UNCHANGED heap
           ELSE /\ heap' = [heap EXCEPT ![registry].tools = @ \cup {Head(members)}]
                /\ loader' = [loader EXCEPT !.files = <<Tail(members)>> \o Tail(@)]
    /\ OnlyLoader

\* load_registry returns the registry and its caller hands it to the server.
LoadReturn ==
    /\ loader.registry # 0
    /\ loader.files = <<>>
    /\ heap' = [heap EXCEPT ![loader.registry].published = TRUE,
                            ![loader.registry].at_publication = heap[loader.registry].tools]
    /\ loader' = NotLoading
    /\ OnlyLoader

LoaderNext ==
    \/ \E layout \in Layouts : LoadRegistryStart(layout)
    \/ LoadMember
    \/ LoadReturn

Init ==
    /\ ServerInit /\ ExecutorInit /\ WatcherInit /\ ClientInit /\ StopInit
    /\ RegistryInit /\ IntrospectInit /\ ProtocolInit /\ LoaderInit

Spec == Init /\ [][ServerNext]_vars

SpecReload == Init /\ [][ReloadNext]_vars

SpecValidator == Init /\ [][ValidatorNext]_vars

SpecSender == Init /\ [][SenderNext]_vars

SpecHandler == Init /\ [][HandlerNext]_vars

SpecRouting == Init /\ [][RoutingNext]_vars

SpecExecutor == Init /\ [][ExecutorNext]_vars

SpecWatcher == Init /\ [][WatcherNext]_vars

SpecClient == Init /\ [][ClientNext]_vars

SpecClose == Init /\ [][CloseNext]_vars

SpecStray == Init /\ [][StrayNext]_vars

\* The event loop runs every callback that is ready and time passes when it is idle;
\* the server need not answer.
TimeoutFairness ==
    /\ \A k \in ClosingCalls :
           WF_vars(CallSend(k)) /\ WF_vars(TimeoutFire(k)) /\ WF_vars(CallResume(k))
    /\ WF_vars(ListenerStep)
    /\ WF_vars(ClientTick)

SpecTimeout == Init /\ [][TimeoutNext]_vars /\ TimeoutFairness

SpecStop == Init /\ [][StopNext]_vars

SpecRegistry == Init /\ [][RegistryNext]_vars

SpecIntrospect == Init /\ [][IntrospectNext]_vars

SpecProtocol == Init /\ [][ProtocolNext]_vars

SpecLoader == Init /\ [][LoaderNext]_vars

(***************************************************************************)
(* Responses the server has produced for accepted requests.                *)
(***************************************************************************)
Written == UNION {{wire_out[c][i] : i \in DOMAIN wire_out[c]} : c \in Conns}
Produced == Written \cup {response_queue[i].message : i \in DOMAIN response_queue}

\* The position of request rid's response on connection c's socket (0: not written).
SentAt(c, rid) ==
    IF \E i \in DOMAIN wire_out[c] : wire_out[c][i].rid = rid
    THEN CHOOSE i \in DOMAIN wire_out[c] : wire_out[c][i].rid = rid
    ELSE 0

(***************************************************************************)
(* C1: every response produced for an accepted request carries that        *)
(* request's correlation id, and the correlation id of no other request,   *)
(* whether the tool was missing, succeeded or raised.                      *)
(***************************************************************************)
C1_CorrelationRoundTrip ==
    \A m \in Produced :
        m.rid \in DOMAIN reqlog =>
            /\ m.cid = reqlog[m.rid].cid
            /\ \A r \in DOMAIN reqlog : r # m.rid => m.cid # reqlog[r].cid

C1_Witness ==
    /\ \E m \in Written : m.code = "tool_not_found" /\ m.cid = CidOf(m.rid)
    /\ \E m \in Written : m.code = "execution_error" /\ m.cid = CidOf(m.rid)
    /\ \E m \in Written : m.type = "tool_call_response" /\ m.cid = CidOf(m.rid)

C3_PingBeforeSlow ==
    \A p \in DOMAIN reqlog :
        (reqlog[p].tool = "ping" /\ reqlog[p].after_slow # 0) =>
            LET s == reqlog[p].after_slow
                c == reqlog[p].conn
            IN  /\ SentAt(c, s) # 0 => (SentAt(c, p) # 0 /\ SentAt(c, p) < SentAt(c, s))
                /\ \A m \in Written : m.rid \in {p, s} => m.cid = reqlog[m.rid].cid

C3_Witness ==
    \E p \in DOMAIN reqlog :
        /\ reqlog[p].tool = "ping"
        /\ reqlog[p].after_slow # 0
        /\ SentAt(reqlog[p].conn, reqlog[p].after_slow) > SentAt(reqlog[p].conn, p)
        /\ SentAt(reqlog[p].conn, p) > 0

(***************************************************************************)
(* C5 as stated: every call is resolved against the registry that the last *)
(* completed on_update published before the call was dispatched.           *)
(***************************************************************************)
C5_DispatchSeesPublished ==
    \A r \in DOMAIN reqlog : reqlog[r].dispatched => reqlog[r].reg = reqlog[r].pub

ReloadsOf(b) == {i \in DOMAIN reloads : reloads[i].burst = b}

C6_OneReloadPerBurst ==
    /\ \A i \in DOMAIN reloads : reloads[i].gap >= DebounceTicks
    /\ \A b \in 1..burst : Cardinality(ReloadsOf(b)) <= 1
    /\ (watch_state = "watching" /\ ready = <<>> /\ thread_pc = "idle") =>
           \A b \in 1..burst :
               since[b] >= DebounceTicks => Cardinality(ReloadsOf(b)) = 1

\* A burst of three events has been reloaded once, and a window has passed since.
C6_Witness ==
    /\ nevents = 3
    /\ burst = 1
    /\ watch_state = "watching"
    /\ Len(reloads) = 1
    /\ reloads[1].burst = 1
    /\ since[1] >= DebounceTicks
    /\ ready = <<>>

(***************************************************************************)
(* C7 as stated: a reload that meets two tools of the same name passes no  *)
(* registry to on_update (every entry of reloads is an on_update call),    *)
(* and the server keeps the registry it had.                               *)
(***************************************************************************)
C7_DuplicateFailsReload ==
    \A i \in DOMAIN reloads :
        reloads[i].collided =>
            /\ reloads[i].on_update = reloads[i].before
            /\ server_registry.tools = reloads[i].before.tools

(***************************************************************************)
(* C8 as stated: no reload starts once the change handler's stop() has     *)
(* run.                                                                    *)
(***************************************************************************)
C8_NoReloadAfterStop == \A i \in DOMAIN reloads : ~reloads[i].after_stop

(***************************************************************************)
(* C9: when the listener reads the response of a call that has timed out,  *)
(* the step raises nothing, drops the response, leaves every call and      *)
(* every other pending entry as it was, and the listener keeps running.    *)
(***************************************************************************)
LateResponse ==
    /\ listener = "running"
    /\ client_socket # <<>>
    /\ TimedOut(Head(client_socket).k)

C11_ResponseCompletesOnlyItsCall ==
    \A i \in DOMAIN listener_log :
        LET e == listener_log[i]
        IN  (e.outcome # "dropped" /\ e.others # {}) =>
                /\ e.outcome = "completed"
                /\ e.altered = {}
                /\ client_calls[e.k].future =
                       IF e.type = "tool_call_response" THEN "result" ELSE "exception"
                /\ e.type = "error_response" =>
                       client_calls[e.k].error = "tool_execution_error"

C13_CloseFailsPending ==
    \A c \in CloseCalls :
        close_calls[c].pc = "returned" =>
            /\ \A k \in close_calls[c].pending :
                   /\ client_calls[k].future # "pending"
                   /\ client_calls[k].future = "exception" =>
                          client_calls[k].error = "connection_closed"
            /\ pending_requests = {}
            /\ listener = "stopped"
            /\ ~connection_open

(***************************************************************************)
(* C14: close() is idempotent.  Called on a client that is not connected - *)
(* closed by an earlier close() or by the server - it returns at once,     *)
(* raising nothing and changing nothing of the client's state.             *)
(***************************************************************************)
C14_CloseIdempotent ==
    [][\A c \in CloseCalls :
          (close_calls[c].pc = "none" /\ close_calls'[c].pc # "none" /\ ~connection_open) =>
              /\ close_calls'[c].pc = "returned_at_once"
              /\ UNCHANGED <<connection_open, socket_closing, pending_requests,
                             client_calls, client_socket, unanswered, listener,
                             listener_cancelled, listener_raised, listener_log>>]_vars

\* A second close() has returned at once after a first close() closed the client,
\* which had failed a call.
C14_Witness ==
    /\ close_calls[1].pc = "returned"
    /\ close_calls[2].pc = "returned_at_once"
    /\ \E k \in ClientCalls : client_calls[k].future = "exception"
    /\ pending_requests = {}

(***************************************************************************)
(* C15: once stop() of the server handle has returned, no task is pending  *)
(* - server task, worker tasks, watcher task, reload tasks - and the       *)
(* listening socket is closed.                                             *)
(***************************************************************************)
C15_StopLeavesNothingPending ==
    (\E c \in StopCalls : stop_calls[c] = "returned") =>
        /\ PendingTasks = {}
        /\ ~listening

(***************************************************************************)
(* C16: a stop() called after an earlier stop() has returned is a no-op:   *)
(* it cancels nothing and changes nothing of the server or the watcher,    *)
(* and queues nothing on the loop but its own wakeup.                      *)
(***************************************************************************)
C16_SecondStopNoOp ==
    [][\A c \in StopCalls :
          (/\ stop_calls[c] # stop_calls'[c]
           /\ \E d \in StopCalls : stop_calls[d] = "returned") =>
              /\ UNCHANGED <<server_task, worker_tasks, listening, serverVars,
                             execVars>>
              /\ UNCHANGED <<stopping, debounce_timer, timers, thread_pc, watch_state,
                             disk, nseen, nevents, burst, since, reloads>>
              /\ \A i \in DOMAIN ready' :
                     ready'[i].kind = "stop_return" \/ \E j \in DOMAIN ready : ready[j] = ready'[i]]_vars

\* A second stop() has returned after the first one did.
C16_Witness ==
    /\ stop_calls[1] = "returned"
    /\ stop_calls[2] = "returned"
    /\ server_task = "done"
    /\ watch_state = "stopped"

(***************************************************************************)
(* C17: every response ToolExecutor.execute produces has exactly one of    *)
(* body and error that is not null: an error response has a null body and  *)
(* an error with a code and a message, a success response has a body and   *)
(* a null error.                                                           *)
(***************************************************************************)
C17_ExactlyOneOfBodyError ==
    \A k \in Calls :
        exec_calls[k].state = "done" =>
            LET message == exec_calls[k].response
                json == model_dump(message)
                body == JsonField(json, "body")
                error == JsonField(json, "error")
            IN  /\ (body = JsonNull) # (error = JsonNull)
                /\ message.type = "error_response" =>
                       body = JsonNull /\ {"code", "message"} \subseteq DOMAIN error
                /\ message.type = "tool_call_response" =>
                       body # JsonNull /\ error = JsonNull

(***************************************************************************)
(* C20: a call that carries an argument named tool_registry, for a tool    *)
(* that exists, is answered with execution_error, and the tool does not    *)
(* run to its result with the injected registry in place of the argument.  *)
(***************************************************************************)
C20_ClientRegistryArgRejected ==
    \A k \in Calls :
        LET call == exec_calls[k]
        IN  (call.state = "done" /\ call.tool # "None" /\ "tool_registry" \in call.args) =>
                /\ call.response.type = "error_response"
                /\ call.response.code = "execution_error"
                /\ ~call.returned

(***************************************************************************)
(* C18: whatever the order of registration, the list get_all_definitions   *)
(* returns holds each registered tool exactly once and is sorted by name,  *)
(* ascending.                                                              *)
(***************************************************************************)
C18_DefinitionsSortedOnce ==
    LET list == definitions.list
    IN  /\ {list[i].name : i \in DOMAIN list} = Keys(definitions.of)
        /\ \A i, j \in DOMAIN list :
               i < j => NameRank(list[i].name) < NameRank(list[j].name)

\* A registry whose tools were registered in descending order has been listed.
C18_Witness ==
    /\ Len(definitions.of) = MaxTools
    /\ \A i, j \in DOMAIN definitions.of :
           i < j => NameRank(definitions.of[i].key) > NameRank(definitions.of[j].key)
    /\ Len(definitions.list) = MaxTools

(***************************************************************************)
(* C19: the args of a tool's definition are its declared parameters        *)
(* without tool_registry, in declaration order.                            *)
(***************************************************************************)
RECURSIVE Without(_, _)
Without(params, names) ==
    IF params = <<>> THEN <<>>
    ELSE IF Head(params) \in names THEN Without(Tail(params), names)
    ELSE <<Head(params)>> \o Without(Tail(params), names)

C19_ArgsAreParamsMinusRegistry ==
    arguments.args = Without(arguments.of, {"tool_registry"})

\* C19 as amended: without tool_registry and without a parameter named self.
C19_ArgsAreParamsMinusHidden ==
    arguments.args = Without(arguments.of, {"tool_registry", "self"})

\* A function declaring y, tool_registry, x has been introspected.
C19_Witness ==
    /\ arguments.of = <<"y", "tool_registry", "x">>
    /\ arguments.args = <<"y", "x">>

(***************************************************************************)
(* C21: register with a name already present raises and leaves the         *)
(* registry as it was, the name still mapping to the first tool; with a    *)
(* new name it stores the tool.  Every name has one entry, and the tool of *)
(* an entry bears the entry's key as its name.                             *)
(***************************************************************************)
C21_DuplicateRegisterFails ==
    /\ register_log.called =>
          /\ register_log.raised = (register_log.tool.name \in Keys(register_log.before))
          /\ register_log.raised =>
                /\ tools = register_log.before
                /\ Lookup(tools, register_log.tool.name)
                       = Lookup(register_log.before, register_log.tool.name)
          /\ ~register_log.raised =>
                /\ tools = Append(register_log.before,
                                  [key |-> register_log.tool.name,
                                   value |-> register_log.tool])
    /\ \A i, j \in DOMAIN tools : tools[i].key = tools[j].key => i = j
    /\ \A i \in DOMAIN tools : tools[i].value.name = tools[i].key

\* A second tool with the name of a registered one, wrapping another function, was
\* refused.
C21_Witness ==
    /\ register_log.called
    /\ register_log.raised
    /\ Lookup(tools, register_log.tool.name).func # register_log.tool.func
    /\ Len(tools) > 1

(***************************************************************************)
(* C22: a call for a tool that is not in the registry is answered with an  *)
(* error response that carries the code tool_not_found and the request's   *)
(* correlation id, and no tool runs for it.                                *)
(***************************************************************************)
\* The code of the error a response's JSON object carries ("None": it carries none).
ErrorCode(json) ==
    LET error == JsonField(json, "error")
    IN  IF "code" \in DOMAIN error THEN error.code ELSE "None"

C22_ToolNotFound ==
    \A k \in Calls :
        LET call == exec_calls[k]
            json == model_dump(call.response)
        IN  (call.state = "done" /\ call.tool_name \notin call.lookup.tools) =>
                /\ call.response.type = "error_response"
                /\ ErrorCode(json) = "tool_not_found"
                /\ json.header.correlation_id = call.correlation_id
                /\ ~call.returned

(***************************************************************************)
(* C23: when a found tool raises, by its own code or because the call's    *)
(* arguments do not fit its signature, the call is answered with an error  *)
(* response that carries the code execution_error.                         *)
(***************************************************************************)
C23_ExecutionError ==
    \A k \in Calls :
        LET call == exec_calls[k]
            json == model_dump(call.response)
        IN  (call.state = "done" /\ call.tool # "None"
               /\ (ToolRaises(call.tool) \/ UnexpectedKeyword(call))) =>
                /\ call.response.type = "error_response"
                /\ ErrorCode(json) = "execution_error"
                /\ json.header.correlation_id = call.correlation_id

\* The handler of connection c reads the frame at the head of its socket in this step.
Reads(c) ==
    /\ conn_state[c] = "open"
    /\ conn_state'[c] = "open"
    /\ inbox[c] # <<>>
    /\ inbox'[c] = Tail(inbox[c])

\* This step answers connection c with one error response of the code and the
\* all-zero correlation id, and routes nothing.
Rejects(c, code) ==
    /\ Len(response_queue') = Len(response_queue) + 1
    /\ LET command == response_queue'[Len(response_queue')]
           json == model_dump(command.message)
       IN  /\ command.connection_id = c
           /\ command.message.type = "error_response"
           /\ ErrorCode(json) = code
           /\ json.header.correlation_id = NullId
    /\ UNCHANGED <<work_queue, executors, reqlog>>

(***************************************************************************)
(* C24: a frame that is not parseable JSON is answered with an error       *)
(* response with the code invalid_json and the all-zero correlation id.    *)
(***************************************************************************)
C24_InvalidJson ==
    [][\A c \in Conns :
          (Reads(c) /\ Head(inbox[c]).kind = "not_json") => Rejects(c, "invalid_json")]_vars

(***************************************************************************)
(* C25: a frame that is JSON but does not match the request schema is      *)
(* answered with one error response with the code validation_error and the *)
(* all-zero correlation id, on its own connection; nothing is routed for   *)
(* it and the connection stays open for its next frame.                    *)
(***************************************************************************)
C25_ValidationError ==
    [][\A c \in Conns :
          (Reads(c) /\ Head(inbox[c]).kind = "bad_schema") =>
              Rejects(c, "validation_error")]_vars

(***************************************************************************)
(* C26: a frame without a correlation_id, or without a header, is rejected *)
(* with validation_error and the all-zero correlation id; it is never put  *)
(* on the work queue under an id the server made up.                       *)
(***************************************************************************)
C26_MissingCorrelationIdRejected ==
    [][\A c \in Conns :
          (Reads(c) /\ Head(inbox[c]).cid = Absent) =>
              Rejects(c, "validation_error")]_vars

\* The sender worker takes the response at the head of the response queue in this step.
Sends(c) ==
    /\ response_queue # <<>>
    /\ response_queue' = Tail(response_queue)
    /\ Head(response_queue).connection_id = c

(***************************************************************************)
(* C27: an exception raised while one message is processed is caught at    *)
(* that message's boundary and answered: a response taken for a connection *)
(* that is in the map with its socket open puts one frame on that socket,  *)
(* the response itself or, when sending it raised, an error response with  *)
(* the code internal_server_error.                                         *)
(***************************************************************************)
C27_InternalServerError ==
    [][\A c \in Conns :
          (Sends(c) /\ c \in active_connections /\ conn_state[c] = "open") =>
              /\ Len(wire_out'[c]) = Len(wire_out[c]) + 1
              /\ LET message == Head(response_queue).message
                     frame == wire_out'[c][Len(wire_out'[c])]
                 IN  IF model_dump_json_raises(message)
                     THEN /\ frame.type = "error_response"
                          /\ frame.code = "internal_server_error"
                     ELSE frame = message]_vars

\* The requests of connection c that were dispatched and are nowhere any more: not with
\* a worker, not on the response queue, not on the socket.
Dropped(c) ==
    {r \in DOMAIN reqlog :
        /\ reqlog[r].conn = c
        /\ reqlog[r].dispatched
        /\ r \notin RunningRids
        /\ \A i \in DOMAIN response_queue : response_queue[i].message.rid # r
        /\ \A i \in DOMAIN wire_out[c] : wire_out[c][i].rid # r}

\* The send of this step fails on the closed socket of connection c.
SendFailsOnClosed(c) ==
    /\ Sends(c)
    /\ c \in active_connections
    /\ conn_state[c] = "socket_closed"
    /\ ~model_dump_json_raises(Head(response_queue).message)

C29_RequestShapeAgreed ==
    /\ \A k \in ClientCalls :
          built[k].state # "none" =>
              /\ built[k].state = "sent"
              /\ built[k].body = [tool |-> built[k].tool, args |-> built[k].args]
    /\ \A k \in ClientCalls :
          (received[k].state = "done" /\ "tool" \in DOMAIN received[k].body) =>
              /\ received[k].accepted
              /\ received[k].router = received[k].body.tool
              /\ received[k].executor = received[k].body.tool

(***************************************************************************)
(* C30: a registry that has been handed to the server is never mutated:    *)
(* its name-to-tool map is as it was at publication, and it is not the     *)
(* registry the loader is building, which started as a new empty one.      *)
(***************************************************************************)
C30_PublishedRegistryFrozen ==
    \A i \in DOMAIN heap :
        heap[i].published =>
            /\ heap[i].tools = heap[i].at_publication
            /\ loader.registry # i

\* Two registries with different tools have been published and a third is being built
\* and has tools already.
C30_Witness ==
    /\ \E i, j \in DOMAIN heap :
          /\ heap[i].published /\ heap[j].published
          /\ heap[i].tools # heap[j].tools
    /\ loader.registry # 0
    /\ heap[loader.registry].tools # {}
    /\ ~heap[loader.registry].published

(***************************************************************************)
(* C31: a connection's id is in the active-connection map exactly from its *)
(* accept until its handler has ended, however it ended; when every        *)
(* handler has ended the map is empty.                                     *)
(***************************************************************************)
C31_MapHoldsLiveHandlers ==
    active_connections = {c \in Conns : conn_state[c] \in {"open", "socket_closed"}}

\* Both handlers have ended, that of c1 by an exception with frames still unread, after
\* a send had failed on a closed socket or found the id gone from the map.
C31_Witness ==
    /\ \A c \in Conns : conn_state[c] = "closed"
    /\ inbox["c1"] # <<>>
    /\ active_connections = {}
    /\ Dropped("c2") # {}

\* The calls that wait for a response or are about to send: their future is not done.
AwaitingCalls ==
    {k \in ClientCalls :
        client_calls[k].state \in {"sending", "waiting"} /\ client_calls[k].future = "pending"}

(***************************************************************************)
(* C32: in the step in which the listener stops, for whatever reason,      *)
(* every call that is pending at that moment is failed with the client     *)
(* error and the pending table is emptied, so that no call is left         *)
(* waiting for its timeout.                                                *)
(***************************************************************************)
C32_ListenerExitFailsPending ==
    [][(listener = "running" /\ listener' = "stopped") =>
          /\ pending_requests' = {}
          /\ \A k \in AwaitingCalls :
                 /\ client_calls'[k].future = "exception"
                 /\ client_calls'[k].error = "listener_terminated"]_vars

\* call() has ended for the caller: it returned a result or raised an error.
CallEnded(k) ==
    client_calls[k].state \in {"returned", "raised_error", "raised_timeout", "raised_connection"}

ReadsUnmatched ==
    /\ listener = "running"
    /\ client_socket # <<>>
    /\ client_socket' = Tail(client_socket)
    /\ Head(client_socket).k \notin pending_requests

C36_RespondOrQueueOnce ==
    [][\A c \in Conns :
          (Reads(c) /\ validate_message(Head(inbox[c])) = "ok") =>
              LET frame == Head(inbox[c])
                  queued == SubSeq(work_queue', Len(work_queue) + 1, Len(work_queue'))
                  answered ==
                      SubSeq(response_queue', Len(response_queue) + 1, Len(response_queue'))
              IN  /\ SubSeq(work_queue', 1, Len(work_queue)) = work_queue
                  /\ SubSeq(response_queue', 1, Len(response_queue)) = response_queue
                  /\ \/ /\ Len(queued) = 1 /\ answered = <<>>
                        /\ queued[1].rid = frame.rid
                        /\ queued[1].connection_id = c
                        /\ queued[1].tool_name = frame.tool
                     \/ /\ queued = <<>> /\ Len(answered) = 1
                        /\ answered[1].connection_id = c
                        /\ answered[1].message.rid = frame.rid
                  /\ UNCHANGED <<conn_state, active_connections, wire_out, executors,
                                 server_registry, router_registry, worker_registry,
                                 published>>]_vars

\* Requests of both connections are on the work queue, one of them accepted without a
\* header, and nothing has been answered.
C36_Witness ==
    /\ \E i, j \in DOMAIN work_queue :
          /\ work_queue[i].connection_id = "c1"
          /\ work_queue[i].correlation_id = uuid4(work_queue[i].rid)
          /\ work_queue[j].connection_id = "c2"
    /\ response_queue = <<>>
    /\ \A c \in Conns : wire_out[c] = <<>>

\* The frames of request r that were written to the socket of connection c.
ResponsesOf(c, r) == {i \in DOMAIN wire_out[c] : wire_out[c][i].rid = r}

(***************************************************************************)
(* C37: every accepted tool call gets exactly one response on its          *)
(* connection while the connection is open: never more than one, and never *)
(* none, so a request that has left the work queue, the workers and the    *)
(* response queue has its response on the socket.                          *)
(***************************************************************************)
C37_ExactlyOneResponse ==
    \A c \in Conns :
        conn_state[c] = "open" =>
            /\ \A r \in DOMAIN reqlog : Cardinality(ResponsesOf(c, r)) <= 1
            /\ Dropped(c) = {}

(***************************************************************************)
(* C38: a response is written only to the socket of the connection its     *)
(* request was read on: a response queued while a frame of connection c is *)
(* read is addressed to c, a response of an accepted request is addressed  *)
(* to and written on the request's connection, and a send writes to no     *)
(* socket but that of its address, and to none when that connection has    *)
(* gone.                                                                   *)
(***************************************************************************)
C38_ResponseToOwnConnection ==
    [][/\ \A c \in Conns :
              Reads(c) =>
                  \A i \in (Len(response_queue) + 1)..Len(response_queue') :
                      response_queue'[i].connection_id = c
       /\ \A i \in DOMAIN response_queue' :
              response_queue'[i].message.rid \in DOMAIN reqlog' =>
                  response_queue'[i].connection_id =
                      reqlog'[response_queue'[i].message.rid].conn
       /\ \A c \in Conns :
              Sends(c) =>
                  /\ \A d \in Conns \ {c} : wire_out'[d] = wire_out[d]
                  /\ c \notin active_connections => wire_out' = wire_out
       /\ \A c \in Conns : \A i \in DOMAIN wire_out'[c] :
              wire_out'[c][i].rid \in DOMAIN reqlog' =>
                  reqlog'[wire_out'[c][i].rid].conn = c]_vars

\* c1 has a validation error on its socket and c2 an error of its tool, and a later
\* response of c2 was dropped after c2 had gone.
C38_Witness ==
    /\ \E j \in DOMAIN wire_out["c1"] : wire_out["c1"][j].code = "validation_error"
    /\ \E i \in DOMAIN wire_out["c2"] : wire_out["c2"][i].code = "execution_error"
    /\ conn_state["c2"] = "closed"
    /\ Dropped("c2") # {}

(***************************************************************************)
(* C39: no pending entry outlives its call: once call() has ended, by a    *)
(* result, an error, the timeout, a failed send or the cancellation of the *)
(* calling task, its correlation id is not in the pending table.           *)
(***************************************************************************)
C39_NoEntryOutlivesCall ==
    \A k \in ClientCalls :
        client_calls[k].state \in {"returned", "raised_error", "raised_timeout",
                                   "raised_connection", "raised_not_connected",
                                   "cancelled"}
            => k \notin pending_requests


(***************************************************************************)
(* C40: reloads triggered over time run one at a time and in order.  At    *)
(* most one reload task exists at any moment; the i-th registry passed to  *)
(* on_update is the i-th one built, and it replaces the registry the       *)
(* previous reload put in force; once a reload has completed, the registry *)
(* in force is the one the last reload built.                              *)
(***************************************************************************)
ReloadTasks == {i \in DOMAIN ready : ready[i].kind = "reload"}

====
